---- MODULE Spec2Model ----
(***************************************************************************)
(* A model of the gold scalper's execution coordinator                     *)
(* (src/main.py GoldScalperBot, src/core/trade_executor.py TradeExecutor), *)
(* the position-lifecycle rules of src/core/risk_manager.py, the order     *)
(* gateway of src/core/mt5_connector.py and the remote-command listener of *)
(* src/notifications/telegram_bot.py.                                      *)
(*                                                                         *)
(* Units.  Prices are integers in points (XAUUSD: point = 0.01, digits = 2,*)
(* so round(x, digits) is rounding to a whole point).  Volumes are in lot  *)
(* steps of 0.01.  The clock counts bars of the main timeframe.             *)
(*                                                                         *)
(* The gateway.  conn is the gateway object the executor works with.  With *)
(* the MT5Connector of the source the entry path gets the LiveFetchBars    *)
(* bars it asks for, fewer than analyze() wants, and get_positions has no  *)
(* lookup by ticket, so no order is sent and no management iteration gets  *)
(* past its first line.  The executor is written against a gateway that    *)
(* serves both; "Conforming" is such a gateway, and Spec covers either.    *)
(*                                                                         *)
(* Spec is the control loop with the broker and the listener thread.       *)
(* SpecOrder is send_order alone, over every sequence of broker answers.   *)
(***************************************************************************)
EXTENDS Integers, Sequences, FiniteSets, TLC

\* ---------------------------------------------------------------- bounds
MaxTickets == 1
MaxClock == 1

\* ------------------------------------------------------ program constants
AnalyzeMinBars == 205
LiveFetchBars == 200
EntryMinBars == 100

Tickets == 1..MaxTickets
PriceGrid == {199800, 200200}
EntryAtrValues == {0, 100}
ManageAtrValues == {100, 150}
Balances == {40}

Ask(b) == b + 20

Max(a, b) == IF a >= b THEN a ELSE b
Min(a, b) == IF a <= b THEN a ELSE b
Abs(a) == IF a >= 0 THEN a ELSE 0 - a

\* Python's round(): n/d to the nearest integer, ties to even (n >= 0, d > 0).
RoundDiv(n, d) ==
  LET q == n \div d
      r == n % d
  IN  IF 2 * r < d THEN q
      ELSE IF 2 * r > d THEN q + 1
      ELSE IF q % 2 = 0 THEN q ELSE q + 1

Remove(f, S) == [t \in (DOMAIN f) \ S |-> f[t]]

NoSl == 0

\* ------------------------------------------------- settings (defaults)
\* Fractions are kept as scaled integers: _x10 is the value times 10.
atr_multiplier_sl_x10 == 15
atr_multiplier_tp_x10 == 25
min_risk_reward_ratio_x10 == 15
breakeven_rr_x10 == 10
scale_out_rr1_x10 == 15
scale_out_pct1_x100 == 50
trailing_stop_atr_multiplier_x10 == 20
trailing_step_points == 50
trailing_activation_rr_x10 == 10
risk_per_trade_pct_x10 == 10
max_total_risk_pct_x10 == 50

\* --------------------------------------------------------- risk manager
\* RiskManager.calculate_sl_tp: distances in 1/10000 point until rounded.
\* The mode is matched by substring ("SNIPER" in strategy_mode).
ModeSlFactor_x10(mode) ==
  IF mode \in {"SNIPER_ONLY", "SNIPER"} THEN 9
  ELSE IF mode \in {"TREND_ONLY", "TREND"} THEN 12
  ELSE IF mode = "BREAKOUT_ONLY" THEN 11 ELSE 10

ModeTpFactor_x10(mode) ==
  IF mode \in {"SNIPER_ONLY", "SNIPER"} THEN 10
  ELSE IF mode \in {"TREND_ONLY", "TREND"} THEN 20
  ELSE IF mode = "BREAKOUT_ONLY" THEN 15 ELSE 10

calculate_sl_tp(entry_price, signal_type, atr_value, mode) ==
  IF entry_price <= 0 \/ atr_value <= 0 \/ signal_type \notin {"BUY", "SELL"}
  THEN [ok |-> FALSE, sl |-> 0, tp |-> 0]
  ELSE
    LET raw_sl  == atr_value * atr_multiplier_sl_x10 * ModeSlFactor_x10(mode) * 100
        raw_tp  == atr_value * atr_multiplier_tp_x10 * ModeTpFactor_x10(mode) * 100
        sl_dist == Max(100 * 10000, Min(raw_sl, 2000 * 10000))
        floor_tp == (sl_dist * min_risk_reward_ratio_x10) \div 10
        tp_dist == IF raw_tp < floor_tp THEN floor_tp ELSE raw_tp
    IN  IF signal_type = "BUY"
        THEN [ok |-> TRUE,
              sl |-> RoundDiv(entry_price * 10000 - sl_dist, 10000),
              tp |-> RoundDiv(entry_price * 10000 + tp_dist, 10000)]
        ELSE [ok |-> TRUE,
              sl |-> RoundDiv(entry_price * 10000 + sl_dist, 10000),
              tp |-> RoundDiv(entry_price * 10000 - tp_dist, 10000)]

\* RiskManager.calculate_optimal_lot_size: balance in dollars, the result in
\* lot steps; a price distance of d points is d/100 dollars per unit, the
\* contract size is 100 and volume_min = volume_step = 0.01 lot.
EffectiveRiskPct_x10(balance) ==
  IF balance < 50 THEN 250
  ELSE IF balance < 200 THEN 80
  ELSE IF balance < 1000 THEN 30
  ELSE Min(risk_per_trade_pct_x10, 20)

calculate_optimal_lot_size(balance, entry_price, sl_price) ==
  LET sl_dist == Abs(entry_price - sl_price)
      eff     == Max(sl_dist, 200)
      \* raw_lot = balance * pct/100 / (eff/100 * 100) lots
      \*         = balance * pct_x10 / (10 * eff) lot steps
      num     == balance * EffectiveRiskPct_x10(balance)
      den     == 10 * eff
      steps   == IF num < den
                 THEN (IF balance >= 10 THEN 1 ELSE 0)
                 ELSE Max(1, RoundDiv(num, den))
  IN  Min(steps, 10000)

\* RiskManager.calculate_position_risk, in cents:
\* lot * sl_dist * contract = (v/100) * (d/100) * 100 dollars = v * d cents.
calculate_position_risk(entry_price, sl_price, volume) ==
  volume * Abs(entry_price - sl_price)

low_balance_floor == 100

RealMaxPositions(balance, setting_max_pos) ==
  IF balance < 50 THEN 1
  ELSE IF balance < 200 THEN Min(3, setting_max_pos)
  ELSE setting_max_pos

\* RiskManager.can_open_new_position; plist is the position list the entry
\* path fetched (a function from ticket to position).
RECURSIVE SumRisk(_, _)
SumRisk(plist, S) ==
  IF S = {} THEN 0
  ELSE LET t == CHOOSE x \in S : TRUE
       IN  (IF plist[t].sl > 0
            THEN calculate_position_risk(plist[t].price_open, plist[t].sl,
                                         plist[t].volume)
            ELSE 0) + SumRisk(plist, S \ {t})

\* An admission whose risk limit has no 20 % margin.
can_open_new_position_no_margin(balance, plist, new_risk, setting_max_pos) ==
  IF Cardinality(DOMAIN plist) >= RealMaxPositions(balance, setting_max_pos)
  THEN [ok |-> FALSE, reason |-> "Max positions limit"]
  ELSE IF balance < low_balance_floor
  THEN [ok |-> TRUE, reason |-> "OK (Auto-Flex Entry)"]
  ELSE IF (SumRisk(plist, DOMAIN plist) + new_risk) * 100
            > balance * max_total_risk_pct_x10 * 10
  THEN [ok |-> FALSE, reason |-> "Total Risk Limit"]
  ELSE [ok |-> TRUE, reason |-> "OK"]

can_open_new_position(balance, plist, new_risk, setting_max_pos) ==
  IF Cardinality(DOMAIN plist) >= RealMaxPositions(balance, setting_max_pos)
  THEN [ok |-> FALSE, reason |-> "Max positions limit"]
  ELSE IF balance < low_balance_floor
  THEN [ok |-> TRUE, reason |-> "OK (Auto-Flex Entry)"]
  ELSE \* projected (cents) > balance * pct/100 * 1.2 dollars
       IF (SumRisk(plist, DOMAIN plist) + new_risk) * 100
            > balance * max_total_risk_pct_x10 * 12
  THEN [ok |-> FALSE, reason |-> "Total Risk Limit"]
  ELSE [ok |-> TRUE, reason |-> "OK"]

\* The price lifecycle management compares a position with
\* (TradeExecutor._get_current_price): bid for a BUY, ask for a SELL.
get_current_price(b, position_type) ==
  IF position_type = "BUY" THEN b ELSE Ask(b)

\* entry_price * 0.0003 against 50 points, in 1/10000 point.
SpreadBuffer(entry_price) == Max(50 * 10000, entry_price * 3)

\* RiskManager.should_move_to_breakeven: [ok, sl].
should_move_to_breakeven(pos, price) ==
  LET no        == [ok |-> FALSE, sl |-> 0]
      risk_dist == Abs(pos.price_open - pos.sl)
      buy_sl    == pos.price_open * 10000 + SpreadBuffer(pos.price_open)
      sell_sl   == pos.price_open * 10000 - SpreadBuffer(pos.price_open)
  IN  IF breakeven_rr_x10 <= 0 THEN no
      ELSE IF pos.sl = NoSl THEN no
      ELSE IF risk_dist < 10 THEN no
      ELSE IF pos.type = "BUY"
      THEN IF (price - pos.price_open) * 10 < risk_dist * breakeven_rr_x10 THEN no
           ELSE IF buy_sl > pos.sl * 10000 /\ buy_sl < price * 10000
                THEN [ok |-> TRUE, sl |-> RoundDiv(buy_sl, 10000)]
                ELSE no
      ELSE IF (pos.price_open - price) * 10 < risk_dist * breakeven_rr_x10 THEN no
           ELSE IF (pos.sl = NoSl \/ sell_sl < pos.sl * 10000)
                   /\ sell_sl > price * 10000
                THEN [ok |-> TRUE, sl |-> RoundDiv(sell_sl, 10000)]
                ELSE no

\* A trailing rule that keeps the entry-side check only and drops the
\* comparison with the current stop and the minimum step.
trailing_candidate_ok_loose(side, candidate_sl, current_sl, entry_price, step) ==
  IF side = "BUY"
  THEN ~ (candidate_sl < entry_price)
  ELSE ~ (candidate_sl > entry_price)

\* RiskManager.calculate_trailing_stop: the new stop, or NoSl for None.
trailing_candidate_ok(side, candidate_sl, current_sl, entry_price, step) ==
  IF side = "BUY"
  THEN ~ (candidate_sl < entry_price)
       /\ ~ (candidate_sl <= current_sl)
       /\ ~ (candidate_sl - current_sl < step)
  ELSE ~ (candidate_sl > entry_price)
       /\ ~ (current_sl # NoSl /\ candidate_sl >= current_sl)
       /\ ~ (current_sl # NoSl /\ current_sl - candidate_sl < step)

calculate_trailing_stop(pos, price, atr_value) ==
  LET initial_risk == IF pos.sl > 0 THEN Abs(pos.price_open - pos.sl)
                      ELSE atr_value
      profit_dist  == Abs(price - pos.price_open)
      trail_dist   == (atr_value * trailing_stop_atr_multiplier_x10) \div 10
      candidate_sl == IF pos.type = "BUY" THEN price - trail_dist
                      ELSE price + trail_dist
  IN  IF atr_value <= 0 THEN NoSl
      ELSE IF profit_dist * 10 < initial_risk * trailing_activation_rr_x10 THEN NoSl
      ELSE IF pos.type = "BUY" /\ price <= pos.price_open THEN NoSl
      ELSE IF pos.type = "SELL" /\ price >= pos.price_open THEN NoSl
      ELSE IF trailing_candidate_ok(pos.type, candidate_sl, pos.sl,
                                    pos.price_open, trailing_step_points)
      THEN candidate_sl
      ELSE NoSl

\* RiskManager.check_scale_out: the lot steps to close, 0 for "no".
check_scale_out(pos, price) ==
  LET risk        == Abs(pos.price_open - pos.sl)
      profit_dist == IF pos.type = "BUY" THEN price - pos.price_open
                     ELSE pos.price_open - price
      floor_lot   == (pos.volume * scale_out_pct1_x100) \div 100
      close_lot   == IF floor_lot < 1 THEN 1 ELSE floor_lot
  IN  IF pos.sl = NoSl \/ risk = 0 THEN 0
      ELSE IF profit_dist * 10 < risk * scale_out_rr1_x10 THEN 0
      ELSE IF pos.volume - close_lot < 1 THEN 0
      ELSE close_lot

\* ------------------------------------------------------ settings (cont.)
cooldown_bars == 1
use_one_order_per_bar == TRUE
max_positions == 5

\* ----------------------------------------------------------------- state
VARIABLES
  conn,                  \* the gateway object the executor was built with
  positions,             \* broker: open ticket -> position record
  next_ticket,           \* broker: the ticket the next deal gets
  bid,                   \* broker: current bid, in points
  now,                   \* wall clock, in half bars of the main timeframe
  bar_time,              \* timestamp of the last bar of the main series
  managed_positions,     \* TradeExecutor.managed_positions: ticket -> side
  scaled_out_tickets,    \* TradeExecutor.scaled_out_tickets (keys)
  at_breakeven_tickets,  \* TradeExecutor.at_breakeven_tickets (keys)
  last_trade_close_time,
  last_order_open_time,
  last_order_bar_time,
  opened_log,            \* history: time, bar, ticket of every order opened
  bot_state,             \* GoldScalperBot.bot_state
  trading_mode,          \* SettingsManager trading mode (override)
  regime_details,        \* GoldScalperBot.regime_details is non-empty
  last_signal_details,   \* what last_signal_details['details'] holds
  is_running,            \* GoldScalperBot.is_running
  pc,                    \* position of the main thread in run()
  open_tickets,          \* manage_positions: tickets still to visit
  symbol_info,           \* manage_positions: bid of the quote it fetched
  atr_value,             \* manage_positions: ATR it computed
  m_act,                 \* manage_positions: what this iteration issued
  phase_log,             \* history: steps of this tick that have completed
  tick_sends,            \* history: send_order calls in this tick
  tick_new,              \* history: tickets newly tracked in this tick
  be_count,              \* history: breakeven moves executed, per ticket
  so_count,              \* history: scale-outs executed, per ticket
  o_in,                  \* send_order: the broker's answers, per attempt
  o_out,                 \* send_order: what the call did
  gate,                  \* entry gate: what its last evaluation did
  regime_detector,       \* MarketRegimeDetector: cache and thresholds
  regime_now,            \* MarketRegimeDetector: pd.Timestamp.now()
  regime_out,            \* detect_regime: what the last call returned
  regime_log,            \* history: an earlier call and what it returned
  admission,             \* can_open_new_position: its inputs and result
  settings_cache,        \* SettingsManager._settings_cache
  settings_file,         \* the settings file on disk
  setter_call,           \* history: the last setter call and what it met
  entry_call,            \* check_for_new_entry: its inputs and its result
  pt_manager,            \* ProfitTargetManager: the instance in memory
  pt_file,               \* data/daily_stats.json
  pt_today,              \* the date datetime.now() gives
  pt_recorded,           \* history: the statistics last saved, and when
  pt_restart,            \* history: the last restart and what it started with
  pt_gate,              \* can_trade: its last answer; as history, the day of the last trade result
  user_paused,           \* history: a pause was issued and no resume since
  reported,              \* history: add_trade_result calls, per ticket
  indicator,             \* an indicator instance: its kind and its cache
  ind_out,              \* calculate(): the series given and the result
  strategy_mode_override,\* SettingsManager: signals.strategy_mode_override
  operator_mode,         \* history: the mode the operator last asked for
  mode_tick,             \* the main thread between session rules and analysis
  mode_call,            \* analyze(): the mode it worked in
  strategy,              \* TradingStrategy: regime, details and confidence thresholds
  bot_regime,           \* the caller's regime, the newest assessment, calls so far
  daily,                 \* the profit-target manager and, as history, the day's realized result
  daily_check,          \* _check_daily_limits: the balance given and the answer
  lot_call,             \* the tick's lot multiplier, default_lot and the volume of its order
  scale_pos,            \* one managed position over several ticks, its instrument and its last scale-out
  signal_call,          \* analyze(): the scores it got and the signal it made of them
  live_detector          \* the live loop's detector, its clock and its last regime check

vars == <<conn, positions, next_ticket, bid, now, bar_time,
          managed_positions,
          scaled_out_tickets, at_breakeven_tickets, last_trade_close_time,
          last_order_open_time, last_order_bar_time, opened_log, bot_state,
          trading_mode,
          regime_details, last_signal_details, is_running, pc, open_tickets,
          symbol_info, atr_value, m_act, phase_log, tick_sends, tick_new,
          be_count, so_count, o_in, o_out, gate, regime_detector,
          regime_now, regime_out, regime_log, admission, settings_cache,
          settings_file, setter_call, entry_call, pt_manager, pt_file,
          pt_today, pt_recorded, pt_restart, pt_gate, user_paused, indicator,
          ind_out,
          strategy_mode_override, operator_mode, mode_tick, mode_call, reported,
          strategy, bot_regime,
          daily, daily_check,
          lot_call,
          scale_pos,
          signal_call,
          live_detector>>

brokerVars == <<positions, next_ticket, bid, now, bar_time>>
trackVars == <<managed_positions, scaled_out_tickets, at_breakeven_tickets,
               last_trade_close_time>>
orderTimeVars == <<last_order_open_time, last_order_bar_time, opened_log>>
botVars == <<bot_state, trading_mode, regime_details, last_signal_details,
             is_running>>
manageVars == <<open_tickets, symbol_info, atr_value, m_act>>
histVars == <<phase_log, tick_sends, tick_new, be_count, so_count>>
\* The state of the units that are also checked alone.
sendUnit == <<o_in, o_out>>
gateUnit == <<gate>>
regimeUnit == <<regime_detector, regime_now, regime_out, regime_log>>
riskUnit == <<admission>>
settingsUnit == <<settings_cache, settings_file, setter_call>>
entryUnit == <<entry_call>>
profitUnit == <<pt_manager, pt_file, pt_today, pt_recorded, pt_restart,
                pt_gate>>
indicatorUnit == <<indicator, ind_out>>
modeUnit == <<strategy_mode_override, operator_mode, mode_tick, mode_call>>
strategyUnit == <<strategy, bot_regime>>
dailyUnit == <<daily, daily_check>>
lotUnit == <<lot_call>>
scaleUnit == <<scale_pos>>
signalUnit == <<signal_call>>
calibrationUnit == <<live_detector>>
orderVars == <<sendUnit, gateUnit, regimeUnit, riskUnit, settingsUnit,
               entryUnit, profitUnit, indicatorUnit,
               modeUnit,
               strategyUnit,
               dailyUnit,
               lotUnit,
               scaleUnit,
               signalUnit,
               calibrationUnit>>
\* What only the listener's pause and resume and the report of a closed
\* trade touch.
asideVars == <<orderVars, user_paused, reported>>
mainVars == <<conn, brokerVars, trackVars, orderTimeVars, botVars, pc,
              manageVars, histVars, user_paused, reported>>

\* Gateways.  MT5Connector is the one in src/core/mt5_connector.py: it
\* returns at most the bars asked for and its get_positions takes no ticket
\* argument.  Conforming is a gateway with the interface the executor calls:
\* it serves a series long enough for analyze() and looks a ticket up.
Connectors == {"MT5Connector", "Conforming"}

bars_served(c, asked) == IF c = "MT5Connector" THEN asked ELSE AnalyzeMinBars
accepts_ticket_lookup(c) == c # "MT5Connector"

\* TradeExecutor._timeframe_to_seconds, in clock units.
timeframe_seconds == 2

\* The process starts in the middle of a bar.
ClockStart == timeframe_seconds + 1

NoBarTime == 0 - 1
\* df_main.index[-1] of the series the gateway serves, and the bar the
\* clock is in.
current_bar_time == bar_time
BarOf(t) == t \div timeframe_seconds

NoAct == [ticket |-> 0, scaled |-> FALSE, be |-> FALSE, trail |-> FALSE,
          side |-> "NONE", old_sl |-> 0, new_sl |-> 0, flag |-> FALSE,
          moves |-> 0]

NoOrder == [state |-> "idle", calls |-> 0]
NoGate == [at |-> 0, bar |-> NoBarTime, passed |-> FALSE, opened |-> FALSE]

\* A position somebody opened by hand before the process started.
ManualPosition ==
  [type |-> "BUY", volume |-> 2, price_open |-> 200020, sl |-> 199900,
   tp |-> 200400]

InitBroker ==
  /\ bid \in PriceGrid
  /\ now = ClockStart
  /\ bar_time = BarOf(now)
  /\ \/ positions = <<>> /\ next_ticket = 1
     \/ /\ bid > ManualPosition.sl /\ bid < ManualPosition.tp
        /\ positions = (1 :> ManualPosition)
        /\ next_ticket = 2

\* TradeExecutor.__init__ and GoldScalperBot.__init__ / start().
InitProgram ==
  /\ managed_positions = <<>>
  /\ scaled_out_tickets = {}
  /\ at_breakeven_tickets = {}
  /\ last_trade_close_time = 0
  /\ last_order_open_time = 0
  /\ last_order_bar_time = NoBarTime
  /\ opened_log = <<>>
  /\ bot_state = "RUNNING"
  /\ trading_mode = "AUTO"
  /\ regime_details = FALSE
  /\ last_signal_details = "DICT"
  /\ is_running = TRUE
  /\ pc = "loop"
  /\ open_tickets = <<>>
  /\ symbol_info = 0
  /\ atr_value = 0
  /\ m_act = NoAct
  /\ phase_log = <<>>
  /\ tick_sends = 0
  /\ tick_new = 0
  /\ be_count = [t \in Tickets |-> 0]
  /\ so_count = [t \in Tickets |-> 0]
  /\ user_paused = FALSE
  /\ reported = [t \in Tickets |-> 0]

\* ------------------------------------------------ MarketRegimeDetector
\* Scores are kept doubled (the trending score moves in halves), ADX in whole
\* points, the ATR ratio in hundredths, the band width in points and the
\* ranging threshold in thousandths of the close.  The detector's
\* regime_history feeds the 'stability' detail only and is left out.
MaxRegimeClock == 3

RegimeLabels == <<"TRENDING", "RANGING", "VOLATILE", "BREAKOUT", "NEUTRAL">>
RegimeLabelSet == {RegimeLabels[i] : i \in 1..Len(RegimeLabels)}

required_bars == 60
calibration_bars == 200
adx_trending_threshold == 25
adx_ranging_threshold == 20
atr_volatile_ratio_x100 == 150
bbw_ranging_x1000 == 50
breakout_score_x2 == 300
breakout_trigger_x2 == 200
neutral_score_x2 == 60
RegimeClockSeconds == 30
cache_seconds == 60
recalibration_seconds == 14400
NoTime == 0 - 1

\* The bar series the detector is given, by what the code reads from them.
RegimeSeries == {"trend", "range", "storm", "surge", "short"}

SeriesData ==
  [s \in RegimeSeries |->
     CASE s = "trend" ->
            [bars |-> 100, adx |-> 60, atr_ratio_x100 |-> 110,
             bb_width |-> 12000, close |-> 200000, price_breakout |-> FALSE,
             impulse |-> FALSE, bb_expanding |-> TRUE,
             cal_ratio_x100 |-> 120, cal_bbw_x1000 |-> 5]
       [] s = "range" ->
            [bars |-> 100, adx |-> 10, atr_ratio_x100 |-> 90,
             bb_width |-> 2000, close |-> 200000, price_breakout |-> FALSE,
             impulse |-> FALSE, bb_expanding |-> FALSE,
             cal_ratio_x100 |-> 120, cal_bbw_x1000 |-> 5]
       [] s = "storm" ->
            [bars |-> 250, adx |-> 22, atr_ratio_x100 |-> 220,
             bb_width |-> 12000, close |-> 200000, price_breakout |-> FALSE,
             impulse |-> TRUE, bb_expanding |-> TRUE,
             cal_ratio_x100 |-> 180, cal_bbw_x1000 |-> 20]
       [] s = "surge" ->
            [bars |-> 100, adx |-> 90, atr_ratio_x100 |-> 120,
             bb_width |-> 12000, close |-> 200000, price_breakout |-> TRUE,
             impulse |-> TRUE, bb_expanding |-> FALSE,
             cal_ratio_x100 |-> 120, cal_bbw_x1000 |-> 5]
       [] OTHER ->
            [bars |-> 50, adx |-> 30, atr_ratio_x100 |-> 100,
             bb_width |-> 2000, close |-> 200000, price_breakout |-> FALSE,
             impulse |-> FALSE, bb_expanding |-> FALSE,
             cal_ratio_x100 |-> 120, cal_bbw_x1000 |-> 5]]

NoIndicators ==
  [adx |-> 0 - 1, atr_ratio_x100 |-> 0, bb_width |-> 0, bb_expanding |-> FALSE]

NoScores == [l \in RegimeLabelSet |-> 0]
NoRegimeOut == [series |-> "NONE", regime |-> "NONE", scores |-> NoScores]

\* MarketRegimeDetector.__init__.
NewDetector ==
  [cached_indicators |-> NoIndicators, last_update_time |-> NoTime,
   last_calibration_time |-> NoTime, is_calibrated |-> FALSE,
   atr_volatile_threshold_x100 |-> atr_volatile_ratio_x100,
   bb_width_ranging_threshold_x1000 |-> bbw_ranging_x1000]

calibrate_thresholds(d, data, t) ==
  IF data.bars < calibration_bars THEN d
  ELSE [d EXCEPT
          !.atr_volatile_threshold_x100 =
             Max(130, Min(data.cal_ratio_x100, 250)),
          !.bb_width_ranging_threshold_x1000 = Max(10, data.cal_bbw_x1000),
          !.is_calibrated = TRUE,
          !.last_calibration_time = t]

cache_is_valid(d, t) ==
  /\ d.cached_indicators # NoIndicators
  /\ d.last_update_time # NoTime
  /\ (t - d.last_update_time) * RegimeClockSeconds < cache_seconds

\* ADX, the ATR against its 20-bar mean, and the band width of the series.
calculate_all_indicators(data) ==
  [adx |-> data.adx, atr_ratio_x100 |-> data.atr_ratio_x100,
   bb_width |-> data.bb_width, bb_expanding |-> data.bb_expanding]

\* The price and the candle come from the series, the band widths from the
\* indicators the call works with.
detect_breakout(data, ind) ==
  data.price_breakout /\ (data.impulse \/ ind.bb_expanding)

regime_scores(data, ind, d) ==
  LET adx    == ind.adx
      ratio  == ind.atr_ratio_x100
      narrow == ind.bb_width * 1000
                  < d.bb_width_ranging_threshold_x1000 * data.close
  IN  [l \in RegimeLabelSet |->
         CASE l = "TRENDING" ->
                IF adx > adx_trending_threshold
                THEN Max(0, (adx - 20) * 5)
                     + (IF 80 < ratio /\ ratio < 150 THEN 40 ELSE 0)
                ELSE 0
           [] l = "RANGING" ->
                IF adx < adx_ranging_threshold
                THEN Max(0, (25 - adx) * 6) + (IF narrow THEN 80 ELSE 0)
                ELSE 0
           [] l = "VOLATILE" ->
                IF ratio > d.atr_volatile_threshold_x100
                THEN Min((ratio - 100) * 2, 200)
                ELSE 0
           [] l = "BREAKOUT" ->
                IF detect_breakout(data, ind) THEN breakout_score_x2 ELSE 0
           [] OTHER -> neutral_score_x2]

\* max(scores, key=scores.get): the first label, in the order the scores
\* were entered, that has the highest score.
highest_scoring(scores) ==
  LET top == CHOOSE m \in {scores[l] : l \in RegimeLabelSet} :
               \A l \in RegimeLabelSet : scores[l] <= m
      i   == CHOOSE k \in 1..Len(RegimeLabels) :
               /\ scores[RegimeLabels[k]] = top
               /\ \A j \in 1..(k - 1) : scores[RegimeLabels[j]] < top
  IN  RegimeLabels[i]

\* A winner that knows no override.
regime_winner_no_override(scores) == highest_scoring(scores)

regime_winner(scores) ==
  IF scores["BREAKOUT"] >= breakout_trigger_x2 THEN "BREAKOUT"
  ELSE highest_scoring(scores)

detect_regime(d, data, use_cache, t) ==
  IF data.bars < required_bars
  THEN [detector |-> d, regime |-> "UNKNOWN", scores |-> NoScores]
  ELSE
    LET due   == \/ ~d.is_calibrated
                 \/ /\ d.last_calibration_time # NoTime
                    /\ (t - d.last_calibration_time) * RegimeClockSeconds
                         > recalibration_seconds
        d1    == IF due THEN calibrate_thresholds(d, data, t) ELSE d
        valid == use_cache /\ cache_is_valid(d1, t)
        ind   == IF valid THEN d1.cached_indicators
                 ELSE calculate_all_indicators(data)
        d2    == IF valid THEN d1
                 ELSE [d1 EXCEPT !.cached_indicators = ind,
                                 !.last_update_time = t]
        scores == regime_scores(data, ind, d2)
    IN  [detector |-> d2, regime |-> regime_winner(scores),
         scores |-> scores]

\* ----------------------------------------------------- SettingsManager
\* A value a setter is called with: a number (percentages in tenths) or a
\* text that is no number.
Num(n) == [kind |-> "num", n |-> n]
Text == [kind |-> "str", n |-> 0]

max_spread_default == 35
min_atr_value_x10 == 2

SettingKeys ==
  {"risk_per_trade_pct", "max_total_risk_pct", "max_positions", "max_spread",
   "min_atr_value"}

\* _get_defaults, for the keys above.
DefaultSettings ==
  [k \in SettingKeys |->
     CASE k = "risk_per_trade_pct" -> Num(risk_per_trade_pct_x10)
       [] k = "max_total_risk_pct" -> Num(max_total_risk_pct_x10)
       [] k = "max_positions" -> Num(max_positions)
       [] k = "max_spread" -> Num(max_spread_default)
       [] OTHER -> Num(min_atr_value_x10)]

\* The ranges _validate_input knows; float() and int() of a text raise and
\* the except clause answers False.  A key it does not know is accepted.
InRange(key, v) ==
  CASE key = "risk_per_trade_pct" -> 1 <= v.n /\ v.n <= 1000
    [] key = "max_total_risk_pct" -> 10 <= v.n /\ v.n <= 1000
    [] key = "max_positions" -> 1 <= v.n /\ v.n <= 20
    [] key = "max_spread" -> 0 <= v.n /\ v.n <= 500
    [] OTHER -> TRUE

validate_input(key, v) ==
  IF key \in {"risk_per_trade_pct", "max_total_risk_pct", "max_positions",
              "max_spread"}
  THEN v.kind = "num" /\ InRange(key, v)
  ELSE TRUE

validate_cross_fields(cache) ==
  IF cache["risk_per_trade_pct"].n > cache["max_total_risk_pct"].n
  THEN [cache EXCEPT !["risk_per_trade_pct"] = cache["max_total_risk_pct"]]
  ELSE cache

\* save_settings: [cache, file, ok].  disk_ok = FALSE: writing the file
\* raises; the cross-field change of the cache stays.
save_settings(cache, file, disk_ok) ==
  LET c == validate_cross_fields(cache)
  IN  [cache |-> c, file |-> IF disk_ok THEN c ELSE file, ok |-> disk_ok]

\* _set_val.  type(old_val)(value) of a text raises and is passed over.
set_val(cache, file, key, v, disk_ok) ==
  IF ~validate_input(key, v)
  THEN [cache |-> cache, file |-> file, result |-> "False"]
  ELSE LET saved == save_settings([cache EXCEPT ![key] = v], file, disk_ok)
       IN  [cache |-> saved.cache, file |-> saved.file,
            result |-> IF saved.ok THEN "True" ELSE "False"]

\* set_max_spread: int(v) and the write, without _set_val.
set_max_spread(cache, file, v, disk_ok) ==
  IF v.kind # "num"
  THEN [cache |-> cache, file |-> file, result |-> "raised"]
  ELSE LET saved == save_settings([cache EXCEPT !["max_spread"] = v], file,
                                  disk_ok)
       IN  [cache |-> saved.cache, file |-> saved.file,
            result |-> IF saved.ok THEN "True" ELSE "False"]

NoSetterCall == [state |-> "idle"]

IdleSettings ==
  /\ settings_cache = DefaultSettings
  /\ settings_file = DefaultSettings
  /\ setter_call = NoSetterCall

\* ------------------------------------------------ ProfitTargetManager
\* Money in cents, dates as day numbers.  stopped_at, a time stamp shown to
\* the operator, is left out.
daily_target_cents == 2000
NoDate == 0
ZeroStats == [profit |-> 0, trades |-> 0, target_reached |-> FALSE]
NoStatsFile == [date |-> NoDate, profit |-> 0, trades |-> 0,
                target_reached |-> FALSE]

\* ProfitTargetManager.__init__ before it loads the statistics.
NewManager(enabled) ==
  [enabled |-> enabled, today_profit |-> 0, today_trades |-> 0,
   target_reached |-> FALSE, last_checked_date |-> NoDate]

StatsOf(m) ==
  [profit |-> m.today_profit, trades |-> m.today_trades,
   target_reached |-> m.target_reached]

\* A save that writes no flag.
save_stats_no_flag(m, file, day, disk_ok) ==
  IF disk_ok
  THEN [date |-> day, profit |-> m.today_profit, trades |-> m.today_trades,
        target_reached |-> FALSE]
  ELSE file

\* _save_stats: the file it leaves.  disk_ok = FALSE: the write raises and
\* the exception is swallowed.
save_stats(m, file, day, disk_ok) ==
  IF disk_ok
  THEN [date |-> day, profit |-> m.today_profit, trades |-> m.today_trades,
        target_reached |-> m.target_reached]
  ELSE file

reset_daily_stats(m) ==
  [m EXCEPT !.today_profit = 0, !.today_trades = 0,
            !.target_reached = FALSE]

\* load_daily_stats: [m, file]; a reset saves.
load_daily_stats(m, file, day, disk_ok) ==
  IF m.last_checked_date = day THEN [m |-> m, file |-> file, saved |-> FALSE]
  ELSE LET m1 == [m EXCEPT !.last_checked_date = day]
       IN  IF file # NoStatsFile /\ file.date = day
           THEN [m |-> [m1 EXCEPT !.today_profit = file.profit,
                                  !.today_trades = file.trades,
                                  !.target_reached = file.target_reached],
                 file |-> file, saved |-> FALSE]
           ELSE [m |-> reset_daily_stats(m1),
                 file |-> save_stats(reset_daily_stats(m1), file, day,
                                     disk_ok),
                 saved |-> disk_ok]

\* ProfitTargetManager.can_trade once the statistics are loaded; the action
\* when the target is reached is STOP, the default.
ptm_can_trade(m) == ~m.enabled \/ ~m.target_reached

NoGateAnswer == [state |-> "idle", last_trade_day |-> NoDate]

IdleProfit ==
  /\ pt_manager = NewManager(FALSE)
  /\ pt_file = NoStatsFile
  /\ pt_today = 1
  /\ pt_recorded = [date |-> NoDate, stats |-> ZeroStats]
  /\ pt_gate = NoGateAnswer
  /\ pt_restart = [state |-> "idle"]

\* ------------------------------------------------------- the indicators
\* ATR, RSI, MACD, MovingAverage, BollingerBands and Stochastic share one
\* shape: a length check, a cache keyed by the hash of the last bar's time
\* and close, the calculation, and calculate() that returns the last value.
\* A series is its length, its last bar as the hash sees it (time and
\* close) and its body: what the hash does not see, the high and low of the
\* last bar and the bars before it.  Two series of different length or of
\* different body can end in the same bar: the same bar a tick later with a
\* new high, or the main and the higher-timeframe series when their forming
\* bars open at the same time.
Indicators == {"ATR", "RSI", "MACD", "MA", "BB", "STOCH"}

atr_period == 14
rsi_period == 14
macd_slow_period == 26
ma_period == 20
bb_period == 20
stoch_k_period == 14

\* The length below which the indicator has nothing to say.
MinWindow(kind) ==
  CASE kind = "ATR" -> atr_period + 1
    [] kind = "RSI" -> rsi_period + 1
    [] kind = "MACD" -> macd_slow_period
    [] kind = "MA" -> ma_period
    [] kind = "BB" -> bb_period
    [] OTHER -> stoch_k_period

NoHash == 0
Unavailable == [kind |-> "none", v |-> 0]
Scalar(v) == [kind |-> "scalar", v |-> v]

NewIndicator(kind) == [kind |-> kind, last_hash |-> NoHash, cache |-> 0]

\* What the calculation gives for a series: a number that tells the series
\* apart.
series_value(series) == 1000 * series.body + 100 * series.bar + series.len

\* An indicator that looks into its cache before it looks at the length;
\* the last bar of an empty series does not exist.
indicator_value_cache_first(ind, series) ==
  IF series.len = 0
  THEN [ind |-> ind, result |-> [kind |-> "raised", v |-> 0]]
  ELSE IF series.bar = ind.last_hash
  THEN [ind |-> ind, result |-> Scalar(ind.cache)]
  ELSE IF series.len < MinWindow(ind.kind)
  THEN [ind |-> ind, result |-> Unavailable]
  ELSE [ind |-> [ind EXCEPT !.last_hash = series.bar,
                            !.cache = series_value(series)],
        result |-> Scalar(series_value(series))]

\* _calculate_*_series and calculate().
indicator_value(ind, series) ==
  IF series.len < MinWindow(ind.kind)
  THEN [ind |-> ind, result |-> Unavailable]
  ELSE IF series.bar = ind.last_hash
  THEN [ind |-> ind, result |-> Scalar(ind.cache)]
  ELSE [ind |-> [ind EXCEPT !.last_hash = series.bar,
                            !.cache = series_value(series)],
        result |-> Scalar(series_value(series))]

IdleIndicator ==
  /\ indicator = NewIndicator("ATR")
  /\ ind_out = [state |-> "idle"]

\* ------------------------------------------------- the mode of analysis
\* The override is the setting strategy_mode_override.  The operator writes
\* it through the mode buttons, _apply_session_rules writes it at the top
\* of every tick, analyze() reads it.  All values are upper case already,
\* so the upper() of _set_val and of analyze() leaves them as they are.
TradingStyles == {"SCALPING", "SWING", "AUTO"}
Sessions == {"FRIDAY", "ASIA", "LONDON_US", "SWAP"}
AsiaModes == {"AGGRESSIVE", "DEFENSIVE"}
AllModeCommands == {"mode_AUTO", "mode_SNIPER_ONLY", "mode_TREND_ONLY"}

\* _apply_session_rules: the status it returns and the override it leaves.
apply_session_rules(current_mode, session, asia_pref) ==
  CASE session = "FRIDAY" -> [status |-> "FRIDAY_STOP", mode |-> current_mode]
    [] session = "ASIA" ->
         [status |-> "NORMAL",
          mode |-> IF asia_pref = "AGGRESSIVE" THEN "AUTO" ELSE "SNIPER_ONLY"]
    [] session = "LONDON_US" -> [status |-> "NORMAL", mode |-> "AUTO"]
    [] OTHER -> [status |-> "PAUSED_SWAP", mode |-> current_mode]

\* analyze(), the AUTO branch: the mode the regime maps to.
regime_mode(style, regime) ==
  IF style = "SCALPING"
  THEN IF regime \in {"TRENDING", "BREAKOUT"} THEN "TREND_ONLY"
       ELSE "SNIPER_ONLY"
  ELSE IF style = "SWING"
  THEN IF regime = "RANGING" THEN "SNIPER_ONLY" ELSE "TREND_ONLY"
  ELSE IF regime \in {"TRENDING", "BREAKOUT"} THEN "TREND_ONLY"
       ELSE "SNIPER_ONLY"

\* analyze(), mode selection.
analysis_mode(manual_mode, style, regime) ==
  IF manual_mode # "AUTO" THEN manual_mode ELSE regime_mode(style, regime)

IdleMode ==
  /\ strategy_mode_override = "AUTO"
  /\ operator_mode = "AUTO"
  /\ mode_tick = [pc |-> "top", style |-> "SCALPING"]
  /\ mode_call = [state |-> "idle"]

\* ------------------------------------- the strategy's view of the regime
\* Confidence thresholds are kept in tenths.  The base values are the
\* defaults of the settings file.
base_min_conf_sniper == 20
base_min_conf_trend == 15
base_min_conf_pullback == 20
base_min_conf_breakout == 12

NoDetails == [direction |-> "NONE", strength |-> "NONE"]

\* What detect_regime can return: the label and the detail fields the
\* strategy reads (_generate_regime_details).
Assessments ==
  {[regime |-> "TRENDING", details |-> [direction |-> d, strength |-> st]] :
     d \in {"BULLISH", "BEARISH"}, st \in {"STRONG", "MODERATE"}}
  \cup
  {[regime |-> "BREAKOUT", details |-> [direction |-> d, strength |-> "NONE"]] :
     d \in {"BULLISH", "BEARISH"}}
  \cup
  {[regime |-> r, details |-> NoDetails] : r \in {"RANGING", "VOLATILE", "NEUTRAL"}}

NoAssessment == [regime |-> "UNKNOWN", details |-> NoDetails]

\* TradingStrategy.__init__ with _apply_style_profile.
NewStrategy(style) ==
  [style |-> style, current_regime |-> "UNKNOWN", regime_details |-> NoDetails,
   min_conf_sniper |->
     IF style = "SCALPING" THEN Max(5, base_min_conf_sniper - 5)
     ELSE IF style = "SWING" THEN base_min_conf_sniper + 5
     ELSE base_min_conf_sniper,
   min_conf_trend |->
     IF style = "SWING" THEN Max(10, base_min_conf_trend)
     ELSE base_min_conf_trend,
   min_conf_pullback |->
     IF style = "SWING" THEN base_min_conf_pullback + 5
     ELSE base_min_conf_pullback,
   min_conf_breakout |->
     IF style = "SCALPING" THEN Max(5, base_min_conf_breakout - 2)
     ELSE IF style = "SWING" THEN base_min_conf_breakout + 5
     ELSE base_min_conf_breakout]

\* TradingStrategy.update_dynamic_confidence.
update_dynamic_confidence(st, regime, details) ==
  LET seen == [st EXCEPT !.current_regime = regime, !.regime_details = details]
  IN  IF regime = "VOLATILE"
      THEN [seen EXCEPT !.min_conf_sniper = @ + 20,
                        !.min_conf_breakout = Max(10, base_min_conf_breakout - 2)]
      ELSE IF regime = "TRENDING"
      THEN IF details.strength = "STRONG"
           THEN [seen EXCEPT
                  !.min_conf_trend = Max(10, base_min_conf_trend - 5),
                  !.min_conf_pullback = Max(10, base_min_conf_pullback - 5),
                  !.min_conf_sniper = @ + 20]
           ELSE seen
      ELSE IF regime = "RANGING"
      THEN [seen EXCEPT !.min_conf_sniper = Max(15, base_min_conf_sniper - 5)]
      ELSE seen

NewBotRegime(runner) ==
  [runner |-> runner, current_regime |-> "UNKNOWN", regime_details |-> NoDetails,
   newest |-> NoAssessment, updates |-> 0]

IdleStrategy ==
  /\ strategy = NewStrategy("SCALPING")
  /\ bot_regime = NewBotRegime("live")

\* ------------------------------------------------- the daily loss limit
\* risk_management.daily_loss_limit_pct, in tenths of a percent.
daily_loss_limit_pct_x10 == 50

\* ProfitTargetManager.add_trade_result, as far as the day's profit goes
\* (money in cents).
add_trade_result(m, profit) ==
  IF ~m.enabled THEN m
  ELSE LET m1 == [m EXCEPT !.today_profit = @ + profit, !.today_trades = @ + 1]
       IN  IF ~m1.target_reached /\ m1.today_profit >= daily_target_cents
           THEN [m1 EXCEPT !.target_reached = TRUE]
           ELSE m1

\* The loss is at or over the limit: |pnl| / balance * 100 >= limit, the
\* balance in dollars.
LossAtLimit(pnl_cents, balance) ==
  /\ pnl_cents < 0
  /\ Abs(pnl_cents) * 10 >= daily_loss_limit_pct_x10 * balance

\* TradeExecutor._check_daily_limits; the statistics it loads are those of
\* the day already.
check_daily_limits(m, balance) ==
  IF daily_loss_limit_pct_x10 <= 0 THEN TRUE
  ELSE ~LossAtLimit(m.today_profit, balance)

NewDaily(enabled) ==
  [m |-> [NewManager(enabled) EXCEPT !.last_checked_date = 1], realized |-> 0,
   closed |-> 0]

IdleDaily ==
  /\ daily = NewDaily(FALSE)
  /\ daily_check = [state |-> "idle"]

\* ------------------------------------------- the regime's lot multiplier
\* MarketRegimeDetector.get_strategy_recommendation: the lot multiplier, in
\* hundredths.  A regime without an entry of its own gets NEUTRAL's.
lot_multiplier_x100(regime, is_high_vol) ==
  LET table == IF regime = "TRENDING" THEN 100
               ELSE IF regime = "RANGING" THEN 100
               ELSE IF regime = "VOLATILE" THEN 70
               ELSE IF regime = "BREAKOUT" THEN 120
               ELSE 80
  IN  IF is_high_vol /\ regime \notin {"VOLATILE", "BREAKOUT"}
      THEN (table * 7) \div 10
      ELSE table

\* trading_cycle, lines 601-604: round(base * mult, 2), at least 0.01 lot;
\* lots in steps of 0.01.
final_lot(base, mult_x100) == Max(1, RoundDiv(base * mult_x100, 100))

IdleLot == lot_call = [state |-> "idle", base |-> 1]

\* ------------------------------------------------- the partial close
\* MT5Connector._normalize_volume: the nearest multiple of the volume step,
\* at least the instrument's minimum (volumes in hundredths of a lot).
normalize_volume(volume, step, min_vol) ==
  Min(Max(IF step > 0 THEN step * RoundDiv(volume, step) ELSE volume,
          min_vol), 10000)

\* MT5Connector.partial_close_position: the volume that is closed when the
\* broker accepts; the whole position when the normalized lot is not below
\* the position's volume (close_position).
partial_close_position(volume, lot_to_close, step, min_vol) ==
  LET lot == normalize_volume(lot_to_close, step, min_vol)
  IN  IF lot >= volume THEN volume ELSE lot

NoScaleOut ==
  [scaled |-> FALSE, profit |-> 0, volume |-> 0, closed |-> 0]

NewScalePos(p, step, min_vol) ==
  [pos |-> p, entry_sl |-> p.sl, step |-> step, min_vol |-> min_vol,
   has_scaled_out |-> FALSE, is_at_breakeven |-> FALSE, passes |-> 0,
   last |-> NoScaleOut]

IdleScale ==
  scale_pos = NewScalePos([type |-> "BUY", volume |-> 1,
                           price_open |-> 200000, sl |-> 199850,
                           tp |-> 200400], 1, 1)

\* ------------------------------------------------- the final signal
\* Scores in hundredths, thresholds in tenths as in the strategy record,
\* confidence in tenths of a percent (rounded down).
ScoringModes == {"SNIPER_ONLY", "SNIPER", "TREND_ONLY", "TREND",
                 "PULLBACK_ONLY", "BREAKOUT_ONLY"}

\* signals.scoring of the default settings: the two scores of a mode.
total_score_x100(mode) ==
  IF mode \in {"SNIPER_ONLY", "SNIPER"} THEN 150 + 100
  ELSE IF mode \in {"TREND_ONLY", "TREND"} THEN 150 + 100
  ELSE IF mode = "PULLBACK_ONLY" THEN 180 + 120
  ELSE 180 + 120

min_conf_needed(st, mode) ==
  IF mode \in {"SNIPER_ONLY", "SNIPER"} THEN st.min_conf_sniper
  ELSE IF mode \in {"TREND_ONLY", "TREND"} THEN st.min_conf_trend
  ELSE IF mode = "PULLBACK_ONLY" THEN st.min_conf_pullback
  ELSE st.min_conf_breakout

\* A decision that gives an equal score to the buy side.
final_signal_ties_buy(st, mode, buy_score, sell_score) ==
  LET need  == 10 * min_conf_needed(st, mode)
      total == total_score_x100(mode)
  IN  IF buy_score >= need /\ buy_score >= sell_score
      THEN [signal_type |-> "BUY",
            confidence |-> Min((buy_score * 1000) \div total, 999)]
      ELSE IF sell_score >= need /\ sell_score > buy_score
      THEN [signal_type |-> "SELL",
            confidence |-> Min((sell_score * 1000) \div total, 999)]
      ELSE [signal_type |-> "NONE", confidence |-> 0]

\* TradingStrategy.analyze, lines 279-301.
final_signal(st, mode, buy_score, sell_score) ==
  LET need  == 10 * min_conf_needed(st, mode)
      total == total_score_x100(mode)
  IN  IF buy_score >= need /\ buy_score > sell_score
      THEN [signal_type |-> "BUY",
            confidence |-> Min((buy_score * 1000) \div total, 999)]
      ELSE IF sell_score >= need /\ sell_score > buy_score
      THEN [signal_type |-> "SELL",
            confidence |-> Min((sell_score * 1000) \div total, 999)]
      ELSE [signal_type |-> "NONE", confidence |-> 0]

IdleSignal == signal_call = [state |-> "idle"]

\* --------------------------------------- calibration in the live loop
\* The bars detect_and_update_regime asks the gateway for.
LiveRegimeBars == 100

NoCheck == [state |-> "idle"]

NewLiveDetector ==
  [d |-> NewDetector, now |-> 0, started |-> FALSE, checks |-> 0,
   last |-> NoCheck]

IdleCalibration == live_detector = NewLiveDetector

IdleSend == o_in = NoOrder /\ o_out = NoOrder
IdleEntry == entry_call = [state |-> "idle"]
IdleRisk == admission = [state |-> "idle"]
IdleGate == gate = NoGate
IdleRegime ==
  /\ regime_detector = NewDetector
  /\ regime_now = 0
  /\ regime_out = NoRegimeOut
  /\ regime_log = NoRegimeOut

\* Every unit but u is at rest.
IdleUnits(u) ==
  /\ IF u # "send" THEN IdleSend ELSE TRUE
  /\ IF u # "gate" THEN IdleGate ELSE TRUE
  /\ IF u # "regime" THEN IdleRegime ELSE TRUE
  /\ IF u # "risk" THEN IdleRisk ELSE TRUE
  /\ IF u # "settings" THEN IdleSettings ELSE TRUE
  /\ IF u # "entry" THEN IdleEntry ELSE TRUE
  /\ IF u # "profit" THEN IdleProfit ELSE TRUE
  /\ IF u # "indicator" THEN IdleIndicator ELSE TRUE
  /\ IF u # "mode" THEN IdleMode ELSE TRUE
  /\ IF u # "strategy" THEN IdleStrategy ELSE TRUE
  /\ IF u # "daily" THEN IdleDaily ELSE TRUE
  /\ IF u # "lot" THEN IdleLot ELSE TRUE
  /\ IF u # "scale" THEN IdleScale ELSE TRUE
  /\ IF u # "signal" THEN IdleSignal ELSE TRUE
  /\ IF u # "calibration" THEN IdleCalibration ELSE TRUE

Init ==
  /\ conn \in Connectors
  /\ InitBroker
  /\ InitProgram
  /\ IdleUnits("none")

\* ------------------------------------------------------------ the broker
\* A tick takes milliseconds and the loop then sleeps a second (run(), line
\* 680): quotes and the clock move while the loop sleeps.  A position can
\* still disappear in the middle of a tick (ListenClose, ListenPanic).
\* The history counts the moves of a position while it is open.
Forget(closed) ==
  /\ be_count' = [t \in Tickets |-> IF t \in closed THEN 0 ELSE be_count[t]]
  /\ so_count' = [t \in Tickets |-> IF t \in closed THEN 0 ELSE so_count[t]]

\* A stop or a target is hit at the price the position is closed at:
\* bid for a BUY, ask for a SELL.
StopHit(pos, b) ==
  IF pos.type = "BUY"
  THEN (pos.sl # NoSl /\ b <= pos.sl) \/ (pos.tp # 0 /\ b >= pos.tp)
  ELSE (pos.sl # NoSl /\ Ask(b) >= pos.sl) \/ (pos.tp # 0 /\ Ask(b) <= pos.tp)

PriceMove(p) ==
  /\ is_running
  /\ pc = "loop"
  /\ p # bid
  /\ bid' = p
  /\ LET hit == {t \in DOMAIN positions : StopHit(positions[t], p)}
     IN  positions' = Remove(positions, hit) /\ Forget(hit)
  /\ UNCHANGED <<next_ticket, now, bar_time, conn>>
  /\ UNCHANGED <<trackVars, orderTimeVars, botVars, pc, manageVars,
                 phase_log, tick_sends, tick_new, asideVars>>

Tock ==
  /\ is_running
  /\ pc = "loop"
  /\ now < ClockStart + MaxClock
  /\ now' = now + 1
  /\ bar_time' = BarOf(now + 1)
  /\ UNCHANGED <<positions, next_ticket, bid, conn>>
  /\ UNCHANGED <<trackVars, orderTimeVars, botVars, pc, manageVars, histVars, asideVars>>

\* --------------------------------------------------------- the main loop
\* A loop body that checks exits before it manages the open positions.
PhaseAfter_exit_first(p) ==
  CASE p = "reconcile" -> "exit"
    [] p = "exit" -> "manage"
    [] p = "manage" -> "entry"
    [] OTHER -> "sleep"

\* A loop body that evaluates entries again after an entry evaluation.
PhaseAfter_entry_again(p) ==
  CASE p = "reconcile" -> "manage"
    [] p = "manage" -> "exit"
    [] OTHER -> "entry"

\* GoldScalperBot.trading_cycle, lines 613-622: the step that follows p.
PhaseAfter(p) ==
  CASE p = "reconcile" -> "manage"
    [] p = "manage" -> "exit"
    [] p = "exit" -> "entry"
    [] OTHER -> "sleep"

PhaseDone(p) ==
  /\ pc' = PhaseAfter(p)
  /\ phase_log' = Append(phase_log, p)

\* A close-all that forgets the tickets and leaves their flags behind.
close_all_positions_keep_flags(ok) ==
  /\ positions' = Remove(positions, ok)
  /\ Forget(ok)
  /\ managed_positions' = Remove(managed_positions, ok)
  /\ UNCHANGED <<scaled_out_tickets, at_breakeven_tickets>>
  /\ last_trade_close_time' = IF ok # {} THEN now ELSE last_trade_close_time

\* TradeExecutor.close_all_positions; ok is the set of tracked open tickets
\* whose close_position call succeeds (empty when the position query fails).
close_all_positions(ok) ==
  /\ positions' = Remove(positions, ok)
  /\ Forget(ok)
  /\ managed_positions' = Remove(managed_positions, ok)
  /\ scaled_out_tickets' = scaled_out_tickets \ ok
  /\ at_breakeven_tickets' = at_breakeven_tickets \ ok
  /\ last_trade_close_time' = IF ok # {} THEN now ELSE last_trade_close_time

TrackedOpen == DOMAIN positions \cap DOMAIN managed_positions

\* update_dashboard reads last_signal_details['details'].get(...) whenever
\* regime_details is non-empty.
dashboard_raises == regime_details /\ last_signal_details = "NONE"

\* GoldScalperBot.run, lines 663-675 of the iteration that follows a tick.
\* An exception here is outside trading_cycle's try: run() catches it and
\* stops.  Whether update_dashboard raises is settled when the tick ends
\* (only the main thread writes what decides it), so the step is taken from
\* there.  When update_dashboard returns it has changed nothing.
DashboardFails == bot_state # "FRIDAY_STOP" /\ dashboard_raises

UpdateDashboard ==
  /\ pc = "sleep"
  /\ is_running
  /\ DashboardFails
  /\ is_running' = FALSE
  /\ pc' = "stopped"
  /\ UNCHANGED <<bot_state, trading_mode, regime_details, last_signal_details>>
  /\ UNCHANGED <<conn, brokerVars, trackVars, orderTimeVars, manageVars,
                 histVars, asideVars>>

\* run(), lines 677-680: the tick is over and the loop sleeps.  The history
\* of the tick is dropped.
Sleep ==
  /\ pc = "sleep"
  /\ ~DashboardFails
  /\ pc' = "loop"
  /\ phase_log' = <<>>
  /\ tick_sends' = 0
  /\ tick_new' = 0
  /\ UNCHANGED <<conn, brokerVars, trackVars, orderTimeVars, botVars,
                 manageVars, be_count, so_count, asideVars>>

\* trading_cycle up to the admission gates (lines 566-611).
CycleStarts ==
  /\ pc = "loop"
  /\ is_running
  /\ ~DashboardFails

CycleFridayStop ==
  /\ CycleStarts
  /\ bot_state' = "FRIDAY_STOP"
  /\ pc' = "sleep"
  /\ \E ok \in SUBSET TrackedOpen : close_all_positions(ok)
  /\ UNCHANGED <<trading_mode, regime_details, last_signal_details, is_running>>
  /\ UNCHANGED <<conn, next_ticket, bid, now, bar_time, orderTimeVars, manageVars,
                 phase_log, tick_sends, tick_new, asideVars>>

\* _apply_session_rules sets the mode the session asks for (AUTO in the
\* London/US hours, SNIPER_ONLY in a defensive Asia session); the regime
\* check fills regime_details; then the profit-target gate and can_trade.
SessionModes == {"AUTO"}

CycleNormal(target_mode, ok_pt, can_trade) ==
  /\ CycleStarts
  /\ trading_mode' = target_mode
  /\ regime_details' = TRUE
  /\ bot_state' = IF ok_pt THEN "RUNNING" ELSE "PAUSED_PTM"
  /\ pc' = IF ok_pt /\ can_trade THEN "reconcile" ELSE "sleep"
  /\ UNCHANGED <<last_signal_details, is_running>>
  /\ UNCHANGED <<conn, brokerVars, trackVars, orderTimeVars, manageVars,
                 histVars, asideVars>>

\* An exception in a step that has no handler of its own is caught by
\* trading_cycle (lines 624-627); the rest of the tick is skipped.
CycleError ==
  /\ CycleStarts \/ pc \in {"manage", "exit"}
  /\ pc' = "sleep"
  /\ UNCHANGED <<conn, brokerVars, trackVars, orderTimeVars, botVars,
                 manageVars, histVars, asideVars>>

\* TradeExecutor.reconcile_closed_by_broker; query_ok = FALSE is the gateway
\* answering with an empty list.  trading_cycle hands the profit of every
\* trade of the returned list to add_trade_result (main.py:614-618).
Reconcile(query_ok) ==
  /\ pc = "reconcile"
  /\ LET listed == IF query_ok THEN DOMAIN positions ELSE {}
         closed_tickets == DOMAIN managed_positions \ listed
     IN  /\ managed_positions' = Remove(managed_positions, closed_tickets)
         /\ scaled_out_tickets' = scaled_out_tickets \ closed_tickets
         /\ at_breakeven_tickets' = at_breakeven_tickets \ closed_tickets
         /\ last_trade_close_time' =
              IF closed_tickets # {} THEN now ELSE last_trade_close_time
         /\ reported' = [t \in Tickets |->
              IF t \in closed_tickets THEN reported[t] + 1 ELSE reported[t]]
  /\ PhaseDone("reconcile")
  /\ UNCHANGED <<conn, brokerVars, orderTimeVars, botVars, manageVars,
                 tick_sends, tick_new, be_count, so_count, orderVars,
                 user_paused>>

\* ---------------------------------------------------- manage_positions
\* The broker lists positions by ticket.
RECURSIVE SortedSeq(_)
SortedSeq(S) ==
  IF S = {} THEN <<>>
  ELSE LET m == CHOOSE x \in S : \A y \in S : x <= y
       IN  <<m>> \o SortedSeq(S \ {m})

\* MT5Connector.modify_position: nothing is sent when the stop is unchanged.
modify_position(broker_sl, new_sl, accepted) == new_sl = broker_sl \/ accepted

\* Lifecycle management that does not consult the scaled-out flag.
has_scaled_out_never(ticket) == ticket \in {}

has_scaled_out(ticket) == ticket \in scaled_out_tickets

\* Lifecycle management that takes every ticket to be at breakeven.
is_at_breakeven_always(ticket) == ticket \in Tickets

is_at_breakeven(ticket) == ticket \in at_breakeven_tickets

\* Lines 345-363: the position list, the quote and the ATR are fetched once
\* for the whole call.
ManageBegin(query_ok, info_ok, atr) ==
  /\ pc = "manage"
  /\ LET listed == IF query_ok THEN DOMAIN positions ELSE {}
         queue  == SortedSeq(listed \cap DOMAIN managed_positions)
     IN  IF listed = {} \/ ~info_ok \/ queue = <<>>
         THEN /\ PhaseDone("manage")
              /\ UNCHANGED <<open_tickets, symbol_info, atr_value>>
         ELSE /\ pc' = "mloop"
              /\ open_tickets' = queue
              /\ symbol_info' = bid
              /\ atr_value' = atr
              /\ UNCHANGED phase_log
  /\ UNCHANGED m_act
  /\ UNCHANGED <<conn, brokerVars, trackVars, orderTimeVars, botVars,
                 tick_sends, tick_new, be_count, so_count, asideVars>>

\* The loop moves to the next ticket, or manage_positions returns.
ManageAdvance ==
  IF Len(open_tickets) <= 1
  THEN /\ PhaseDone("manage")
       /\ open_tickets' = <<>>
       /\ symbol_info' = 0
       /\ atr_value' = 0
  ELSE /\ pc' = "mloop"
       /\ open_tickets' = Tail(open_tickets)
       /\ UNCHANGED <<phase_log, symbol_info, atr_value>>

\* Lines 366-370 fail: the gateway has no lookup by ticket (TypeError), or
\* the position is gone; the iteration is skipped.
ManageSkip ==
  /\ pc = "mloop"
  /\ ManageAdvance
  /\ UNCHANGED m_act
  /\ UNCHANGED <<conn, brokerVars, trackVars, orderTimeVars, botVars,
                 tick_sends, tick_new, be_count, so_count, asideVars>>

\* Lines 372-409 for the ticket at the head of the list: the broker calls of
\* one iteration.  so_ok and mod_ok are the broker's answers to the partial
\* close and to the stop modification.
ManageTicket(so_ok, mod_ok) ==
  /\ pc = "mloop"
  /\ accepts_ticket_lookup(conn)
  /\ Head(open_tickets) \in DOMAIN positions
  /\ LET ticket    == Head(open_tickets)
         position  == positions[ticket]
         price     == get_current_price(symbol_info, position.type)
         flag      == is_at_breakeven(ticket)
         lot       == IF has_scaled_out(ticket) THEN 0
                      ELSE check_scale_out(position, price)
         scaled    == lot > 0 /\ so_ok
         be        == should_move_to_breakeven(position, price)
         moved     == /\ ~flag /\ be.ok /\ be.sl # NoSl
                      /\ modify_position(position.sl, be.sl, mod_ok)
         trail_sl  == IF flag
                      THEN calculate_trailing_stop(position, price, atr_value)
                      ELSE NoSl
         trailed   == /\ trail_sl # NoSl /\ position.sl # trail_sl
                      /\ modify_position(position.sl, trail_sl, mod_ok)
         sl_after  == IF moved THEN be.sl
                      ELSE IF trailed THEN trail_sl ELSE position.sl
         vol_after == IF scaled THEN position.volume - lot ELSE position.volume
     IN  /\ positions' = [positions EXCEPT ![ticket] =
                            [@ EXCEPT !.sl = sl_after, !.volume = vol_after]]
         /\ so_count' = IF scaled THEN [so_count EXCEPT ![ticket] = @ + 1]
                        ELSE so_count
         /\ be_count' = IF moved THEN [be_count EXCEPT ![ticket] = @ + 1]
                        ELSE be_count
         /\ IF scaled \/ moved \/ trailed
            THEN /\ pc' = "mflag"
                 /\ m_act' = [ticket |-> ticket, scaled |-> scaled,
                              be |-> moved, trail |-> trailed,
                              side |-> position.type, old_sl |-> position.sl,
                              new_sl |-> sl_after, flag |-> flag,
                              moves |-> be_count[ticket]]
                 /\ UNCHANGED <<open_tickets, symbol_info, atr_value, phase_log>>
            ELSE /\ ManageAdvance
                 /\ UNCHANGED m_act
  /\ UNCHANGED <<conn, next_ticket, bid, now, bar_time, trackVars, orderTimeVars,
                 botVars, tick_sends, tick_new, asideVars>>

\* Lines 385 and 398: the flags are written after the broker call returned.
ManageSetFlags ==
  /\ pc = "mflag"
  /\ scaled_out_tickets' = IF m_act.scaled
                           THEN scaled_out_tickets \cup {m_act.ticket}
                           ELSE scaled_out_tickets
  /\ at_breakeven_tickets' = IF m_act.be
                             THEN at_breakeven_tickets \cup {m_act.ticket}
                             ELSE at_breakeven_tickets
  /\ m_act' = NoAct
  /\ ManageAdvance
  /\ UNCHANGED <<managed_positions, last_trade_close_time>>
  /\ UNCHANGED <<conn, brokerVars, orderTimeVars, botVars, tick_sends,
                 tick_new, be_count, so_count, asideVars>>

\* --------------------------------------------------- check_exit_signals
ExitViews == {"HOLD", "CLOSE_BUY", "CLOSE_SELL", "CLOSE_ALL"}

\* Strategy.should_close_position, by what the analysis details say: a trend
\* reversal or an invalidated zone against the side of the position.
should_close_position(position, view) ==
  \/ view = "CLOSE_ALL"
  \/ position.type = "BUY" /\ view = "CLOSE_BUY"
  \/ position.type = "SELL" /\ view = "CLOSE_SELL"

\* Strategy.analyze returns empty details for a series below its minimum.
ViewsFor(bars) == IF bars < AnalyzeMinBars THEN {"HOLD"} ELSE ExitViews

\* data_ok = FALSE stands for a failed position, bar or quote query; accepted
\* is the set of tickets whose close_position call succeeds.
ExitCheck(data_ok, view, accepted) ==
  /\ pc = "exit"
  /\ LET bars   == bars_served(conn, LiveFetchBars)
         closed == IF data_ok /\ bars >= EntryMinBars
                   THEN {t \in TrackedOpen \cap accepted :
                           should_close_position(positions[t], view)}
                   ELSE {}
     IN  /\ view \in ViewsFor(bars)
         /\ close_all_positions(closed)
  /\ PhaseDone("exit")
  /\ UNCHANGED <<conn, next_ticket, bid, now, bar_time, orderTimeVars, botVars,
                 manageVars, tick_sends, tick_new, asideVars>>

\* ----------------------------------------------- MT5Connector.send_order
filling_modes == <<"FOK", "IOC", "RETURN">>

\* What one order_send call can come back with: retcode DONE, retcode 10030
\* (unsupported filling mode), any other retcode, or no result at all.
Answers == {"DONE", "UNSUPPORTED", "REJECTED", "NONE"}
AnswerSeqs == [1..Len(filling_modes) -> Answers]

\* A loop that goes on to the next mode after any answer but DONE.
RECURSIVE order_loop_any_failure(_, _)
order_loop_any_failure(answers, i) ==
  IF i > Len(filling_modes) THEN [ok |-> FALSE, tried |-> <<>>]
  ELSE IF answers[i] = "DONE"
       THEN [ok |-> TRUE, tried |-> <<filling_modes[i]>>]
  ELSE LET rest == order_loop_any_failure(answers, i + 1)
       IN  [ok |-> rest.ok, tried |-> <<filling_modes[i]>> \o rest.tried]

\* Lines 346-365, from the i-th mode on: the modes tried and the outcome.
RECURSIVE order_loop(_, _)
order_loop(answers, i) ==
  IF i > Len(filling_modes) THEN [ok |-> FALSE, tried |-> <<>>]
  ELSE IF answers[i] = "NONE"
       THEN LET rest == order_loop(answers, i + 1)
            IN  [ok |-> rest.ok, tried |-> <<filling_modes[i]>> \o rest.tried]
  ELSE IF answers[i] = "DONE"
       THEN [ok |-> TRUE, tried |-> <<filling_modes[i]>>]
  ELSE IF answers[i] = "UNSUPPORTED"
       THEN LET rest == order_loop(answers, i + 1)
            IN  [ok |-> rest.ok, tried |-> <<filling_modes[i]>> \o rest.tried]
  ELSE [ok |-> FALSE, tried |-> <<filling_modes[i]>>]

\* pre_ok: the connection and the symbol query of lines 305-310 succeed.
send_order(pre_ok, volume, answers) ==
  IF ~pre_ok \/ volume <= 0 THEN [ok |-> FALSE, tried |-> <<>>]
  ELSE order_loop(answers, 1)

\* ------------------------------------------------- check_for_new_entry
\* A gate that knows the one-order-per-bar limit only.
check_cooldown_and_bar_limits_no_cooldown ==
  ~ (use_one_order_per_bar /\ last_order_bar_time = current_bar_time)

\* A gate that knows the cooldown only.
check_cooldown_and_bar_limits_no_bar_limit ==
  ~ (now - last_order_open_time < cooldown_bars * timeframe_seconds)

\* TradeExecutor._check_cooldown_and_bar_limits.
check_cooldown_and_bar_limits ==
  /\ ~ (now - last_order_open_time < cooldown_bars * timeframe_seconds)
  /\ ~ (use_one_order_per_bar /\ last_order_bar_time = current_bar_time)

\* Strategy.analyze, lines 151-186: the mode the analysis works in.
StrategyModes == {"SNIPER_ONLY", "TREND_ONLY", "SNIPER"}

AnalysisModes ==
  IF trading_mode # "AUTO" THEN {trading_mode}
  ELSE {"SNIPER_ONLY", "TREND_ONLY"}

\* Strategy.analyze: a series below the minimum gives "NEUTRAL"; otherwise
\* the scores decide between a direction and None.
SignalsFor(bars) ==
  IF bars < AnalyzeMinBars THEN {"NEUTRAL"} ELSE {"NONE", "BUY", "SELL"}

EntryAnswerSeqs ==
  {<<"DONE", "DONE", "DONE">>, <<"UNSUPPORTED", "NONE", "DONE">>,
   <<"UNSUPPORTED", "REJECTED", "DONE">>}

EntryLeaves(details) ==
  /\ PhaseDone("entry")
  /\ last_signal_details' = details
  /\ UNCHANGED <<bot_state, trading_mode, regime_details, is_running>>
  /\ UNCHANGED <<conn, manageVars, be_count, so_count, asideVars>>

\* Line 131-133: the result carries no details.
EntryNoSymbolInfo ==
  /\ pc = "entry"
  /\ EntryLeaves("NONE")
  /\ UNCHANGED <<brokerVars, trackVars, orderTimeVars, tick_sends, tick_new>>

\* Lines 137-143 and 170-180: None is returned, main keeps the old details.
EntryNone ==
  /\ pc = "entry"
  /\ EntryLeaves(last_signal_details)
  /\ UNCHANGED <<brokerVars, trackVars, orderTimeVars, tick_sends, tick_new>>

\* Lines 146-151: the cooldown or the one-order-per-bar limit is active.
EntrySkipped ==
  /\ pc = "entry"
  /\ ~check_cooldown_and_bar_limits
  /\ EntryLeaves("DICT")
  /\ UNCHANGED <<brokerVars, trackVars, orderTimeVars, tick_sends, tick_new>>

\* Lines 163-251 end without an order: the analysis gives no direction, or
\* the validation, the account query, the daily limit, the stop computation
\* or the position limit refuses.  The result carries the analysis details.
EntryRefused ==
  /\ pc = "entry"
  /\ check_cooldown_and_bar_limits
  /\ EntryLeaves("DICT")
  /\ UNCHANGED <<brokerVars, trackVars, orderTimeVars, tick_sends, tick_new>>

\* Lines 163-287 reach send_order: the analysis gave the signal in the mode,
\* calculate_sl_tp and can_open_new_position let it through.
\* query_ok = FALSE: the position query of line 201 comes back empty.
EntryAnalyzed(signal, mode, atr, balance, query_ok, pre_ok, answers) ==
  /\ pc = "entry"
  /\ check_cooldown_and_bar_limits
  /\ signal \in SignalsFor(bars_served(conn, LiveFetchBars))
  /\ mode \in AnalysisModes
  /\ LET entry_price == IF signal = "BUY" THEN Ask(bid) ELSE bid
         sltp        == calculate_sl_tp(entry_price, signal, atr, mode)
         lot_size    == calculate_optimal_lot_size(balance, entry_price, sltp.sl)
         risk        == calculate_position_risk(entry_price, sltp.sl, lot_size)
         plist       == IF query_ok THEN positions ELSE <<>>
         can_open    == can_open_new_position(balance, plist, risk, max_positions)
         result      == send_order(pre_ok, lot_size, answers)
     IN  /\ sltp.ok
         /\ can_open.ok
         /\ result.ok => next_ticket <= MaxTickets
         /\ tick_sends' = tick_sends + 1
         /\ IF result.ok
            THEN /\ positions' = positions @@ (next_ticket :>
                      [type |-> signal, volume |-> lot_size,
                       price_open |-> entry_price, sl |-> sltp.sl,
                       tp |-> sltp.tp])
                 /\ next_ticket' = next_ticket + 1
                 /\ managed_positions' =
                      managed_positions @@ (next_ticket :> signal)
                 /\ last_order_open_time' = now
                 /\ last_order_bar_time' = current_bar_time
                 /\ opened_log' = Append(opened_log,
                      [time |-> now, bar |-> current_bar_time,
                       ticket |-> next_ticket])
                 /\ tick_new' = tick_new + 1
                 /\ UNCHANGED <<bid, now, bar_time, scaled_out_tickets,
                                at_breakeven_tickets, last_trade_close_time>>
            ELSE UNCHANGED <<brokerVars, trackVars, orderTimeVars, tick_new>>
  /\ EntryLeaves("DICT")

\* ------------------------------------------- the remote-command listener
\* TelegramBot handle_query: bot_pause, bot_resume, mode_<m>, panic_execute
\* and close_<ticket>.  The main thread reads or overwrites bot_state at the
\* top of the loop only; a write of the listener that lands later in the tick
\* is the same as one that lands right before the next.  The trading mode is
\* overwritten by the session rules at the top of the loop and read by the
\* entry analysis; the write that matters is the one right before that read.
\* pc = "sleep" is the instant the tick returns; what the listener does while
\* the loop sleeps it does at pc = "loop".
ListenPoints == {"entry"}

ListenPause ==
  /\ is_running
  /\ pc = "loop"
  /\ bot_state' = "PAUSED_USER"
  /\ user_paused' = TRUE
  /\ UNCHANGED reported
  /\ UNCHANGED <<trading_mode, regime_details, last_signal_details, is_running>>
  /\ UNCHANGED <<conn, brokerVars, trackVars, orderTimeVars, pc, manageVars,
                 histVars, orderVars>>

ListenResume ==
  /\ is_running
  /\ pc = "loop"
  /\ bot_state' = "RUNNING"
  /\ user_paused' = FALSE
  /\ UNCHANGED reported
  /\ UNCHANGED <<trading_mode, regime_details, last_signal_details, is_running>>
  /\ UNCHANGED <<conn, brokerVars, trackVars, orderTimeVars, pc, manageVars,
                 histVars, orderVars>>

\* The mode buttons and what cmd.split("_")[1] makes of them (line 217).
ModeCommands == {"mode_AUTO", "mode_SNIPER_ONLY"}

ModeOfCommand(cmd) ==
  CASE cmd = "mode_AUTO" -> "AUTO"
    [] cmd = "mode_SNIPER_ONLY" -> "SNIPER"
    [] cmd = "mode_TREND_ONLY" -> "TREND"

ListenMode(cmd) ==
  /\ is_running
  /\ pc \in ListenPoints
  /\ trading_mode' = ModeOfCommand(cmd)
  /\ UNCHANGED <<bot_state, regime_details, last_signal_details, is_running>>
  /\ UNCHANGED <<conn, brokerVars, trackVars, orderTimeVars, pc, manageVars,
                 histVars, asideVars>>

ListenPanic(ok) ==
  /\ is_running
  /\ pc # "sleep"
  /\ close_all_positions(ok)
  /\ UNCHANGED <<conn, next_ticket, bid, now, bar_time, orderTimeVars, botVars, pc,
                 manageVars, phase_log, tick_sends, tick_new, asideVars>>

ListenClose(ticket) ==
  /\ is_running
  /\ pc # "sleep"
  /\ ticket \in DOMAIN positions
  /\ positions' = Remove(positions, {ticket})
  /\ Forget({ticket})
  /\ UNCHANGED <<conn, next_ticket, bid, now, bar_time, trackVars, orderTimeVars,
                 botVars, pc, manageVars, phase_log, tick_sends, tick_new,
                 asideVars>>

ListenerNext ==
  \/ ListenPause
  \/ ListenResume
  \/ \E cmd \in ModeCommands : ListenMode(cmd)
  \/ \E ok \in SUBSET TrackedOpen : ListenPanic(ok)
  \/ \E ticket \in Tickets : ListenClose(ticket)

BrokerNext ==
  \/ \E p \in PriceGrid : PriceMove(p)
  \/ Tock

MainNext ==
  \/ UpdateDashboard
  \/ Sleep
  \/ CycleFridayStop
  \/ \E target_mode \in SessionModes, ok_pt, can_trade \in BOOLEAN :
       CycleNormal(target_mode, ok_pt, can_trade)
  \/ CycleError
  \/ \E query_ok \in BOOLEAN : Reconcile(query_ok)
  \/ \E query_ok, info_ok \in BOOLEAN, atr \in ManageAtrValues :
       ManageBegin(query_ok, info_ok, atr)
  \/ ManageSkip
  \/ \E so_ok, mod_ok \in BOOLEAN : ManageTicket(so_ok, mod_ok)
  \/ ManageSetFlags
  \/ \E data_ok \in BOOLEAN, view \in ExitViews, accepted \in SUBSET Tickets :
       ExitCheck(data_ok, view, accepted)
  \/ EntryNoSymbolInfo
  \/ EntryNone
  \/ EntrySkipped
  \/ EntryRefused
  \/ \E signal \in {"NEUTRAL", "NONE", "BUY", "SELL"},
        mode \in StrategyModes, atr \in EntryAtrValues, balance \in Balances,
        query_ok, pre_ok \in BOOLEAN, answers \in EntryAnswerSeqs :
       EntryAnalyzed(signal, mode, atr, balance, query_ok, pre_ok, answers)

Next == MainNext \/ BrokerNext \/ ListenerNext

Spec == Init /\ [][Next]_vars

\* ------------------------------------------------------ send_order alone
\* One order submission of the entry path (check_for_new_entry, lines
\* 257-265) against every sequence of answers the broker can give.
OrderVolumes == {0, 5}

InitOrder ==
  /\ conn = "MT5Connector"
  /\ bid = 200200
  /\ now = ClockStart
  /\ bar_time = BarOf(now)
  /\ positions = <<>>
  /\ next_ticket = 1
  /\ InitProgram
  /\ o_in \in [state : {"ready"}, pre_ok : BOOLEAN, volume : OrderVolumes,
               answers : AnswerSeqs]
  /\ o_out = NoOrder
  /\ IdleUnits("send")

SubmitOrder ==
  /\ o_in.state = "ready"
  /\ LET result == send_order(o_in.pre_ok, o_in.volume, o_in.answers)
     IN  o_out' = [state |-> "returned", ok |-> result.ok,
                   tried |-> result.tried,
                   calls |-> o_out.calls + 1]
  /\ o_in' = [o_in EXCEPT !.state = "sent"]
  /\ UNCHANGED <<mainVars, gateUnit, regimeUnit, riskUnit, settingsUnit,
                 entryUnit, profitUnit, indicatorUnit,
                 modeUnit,
                 strategyUnit,
                 dailyUnit,
                 lotUnit,
                 scaleUnit,
                 signalUnit,
                 calibrationUnit>>

NextOrder == SubmitOrder

SpecOrder == InitOrder /\ [][NextOrder]_vars

\* ------------------------------------------------- the entry gate alone
\* _check_cooldown_and_bar_limits and the bookkeeping of lines 282-283,
\* against a clock and a feed whose last bar can be stale (a quiet or closed
\* market forms no new bar).  executed: the rest of check_for_new_entry got
\* an order through.
MaxGateClock == 3
MaxGateOrders == 2

InitGate ==
  /\ conn = "Conforming"
  /\ bid = 200200
  /\ now = ClockStart
  /\ bar_time = BarOf(now)
  /\ positions = <<>>
  /\ next_ticket = 1
  /\ InitProgram
  /\ gate = NoGate
  /\ IdleUnits("gate")

GateTock(fresh) ==
  /\ now < ClockStart + MaxGateClock
  /\ now' = now + 1
  /\ bar_time' = IF fresh THEN BarOf(now + 1) ELSE bar_time
  /\ UNCHANGED <<conn, positions, next_ticket, bid, trackVars, orderTimeVars,
                 botVars, pc, manageVars, histVars, asideVars>>

GateEntry(executed) ==
  /\ LET passed == check_cooldown_and_bar_limits
         opened == passed /\ executed
     IN  /\ opened => Len(opened_log) < MaxGateOrders
         /\ gate' = [at |-> now, bar |-> current_bar_time, passed |-> passed,
                     opened |-> opened]
         /\ IF opened
            THEN /\ last_order_open_time' = now
                 /\ last_order_bar_time' = current_bar_time
                 /\ opened_log' = Append(opened_log,
                      [time |-> now, bar |-> current_bar_time,
                       ticket |-> Len(opened_log) + 1])
            ELSE UNCHANGED orderTimeVars
  /\ UNCHANGED <<conn, brokerVars, trackVars, botVars, pc, manageVars,
                 histVars, user_paused, reported, sendUnit, regimeUnit,
                 riskUnit,
                 settingsUnit, entryUnit, profitUnit, indicatorUnit,
                 modeUnit,
                 strategyUnit,
                 dailyUnit,
                 lotUnit,
                 scaleUnit,
                 signalUnit,
                 calibrationUnit>>

NextGate ==
  \/ \E fresh \in BOOLEAN : GateTock(fresh)
  \/ \E executed \in BOOLEAN : GateEntry(executed)

SpecGate == InitGate /\ [][NextGate]_vars

\* ----------------------------------------- the regime detector alone
\* calibrate_thresholds at start-up (main.py, line 454-456) and detect_regime
\* on any of the series, with and without the cache, as time passes.
InitRegime ==
  /\ conn = "MT5Connector"
  /\ bid = 200200
  /\ now = ClockStart
  /\ bar_time = BarOf(now)
  /\ positions = <<>>
  /\ next_ticket = 1
  /\ InitProgram
  /\ IdleRegime
  /\ IdleUnits("regime")

RegimeTock ==
  /\ regime_now < MaxRegimeClock
  /\ regime_now' = regime_now + 1
  /\ UNCHANGED <<regime_detector, regime_out, regime_log>>
  /\ UNCHANGED <<mainVars, sendUnit, gateUnit, riskUnit, settingsUnit,
                 entryUnit, profitUnit, indicatorUnit,
                 modeUnit,
                 strategyUnit,
                 dailyUnit,
                 lotUnit,
                 scaleUnit,
                 signalUnit,
                 calibrationUnit>>

Calibrate(s) ==
  /\ regime_detector.last_update_time = NoTime
  /\ SeriesData[s].bars >= calibration_bars
  /\ regime_detector' =
       calibrate_thresholds(regime_detector, SeriesData[s], regime_now)
  /\ UNCHANGED <<regime_now, regime_out, regime_log>>
  /\ UNCHANGED <<mainVars, sendUnit, gateUnit, riskUnit, settingsUnit,
                 entryUnit, profitUnit, indicatorUnit,
                 modeUnit,
                 strategyUnit,
                 dailyUnit,
                 lotUnit,
                 scaleUnit,
                 signalUnit,
                 calibrationUnit>>

\* remember: the history keeps this call to compare later calls with.
Detect(s, use_cache, remember) ==
  /\ remember => regime_log = NoRegimeOut
  /\ LET r   == detect_regime(regime_detector, SeriesData[s], use_cache,
                              regime_now)
         res == [series |-> s, regime |-> r.regime, scores |-> r.scores]
     IN  /\ regime_detector' = r.detector
         /\ regime_out' = res
         /\ regime_log' = IF remember THEN res ELSE regime_log
  /\ UNCHANGED regime_now
  /\ UNCHANGED <<mainVars, sendUnit, gateUnit, riskUnit, settingsUnit,
                 entryUnit, profitUnit, indicatorUnit,
                 modeUnit,
                 strategyUnit,
                 dailyUnit,
                 lotUnit,
                 scaleUnit,
                 signalUnit,
                 calibrationUnit>>

NextRegime ==
  \/ RegimeTock
  \/ \E s \in RegimeSeries : Calibrate(s)
  \/ \E s \in RegimeSeries, use_cache, remember \in BOOLEAN :
       Detect(s, use_cache, remember)

SpecRegime == InitRegime /\ [][NextRegime]_vars

\* ------------------------------------------------ entry admission alone
\* can_open_new_position on books of open positions, balances and risks of
\* the new position around the limit.  A book names the risk its positions
\* carry, in cents; a position without a stop carries none the code counts.
RiskBalances == {40, 100, 150, 5000}
NewRisks == {0, 599, 600, 601, 6000, 6001, 30000, 30001}

RiskPosition(stop) ==
  [type |-> "BUY", volume |-> 10, price_open |-> 200000, sl |-> stop,
   tp |-> 0]

Books ==
  {[plist |-> <<>>, open_risk |-> 0],
   [plist |-> <<RiskPosition(197600)>>, open_risk |-> 24000],
   [plist |-> <<RiskPosition(NoSl)>>, open_risk |-> 0],
   [plist |-> <<RiskPosition(197600), RiskPosition(197600)>>,
    open_risk |-> 48000],
   [plist |-> <<RiskPosition(197600), RiskPosition(NoSl),
                RiskPosition(199000)>>, open_risk |-> 34000],
   [plist |-> [t \in 1..max_positions |-> RiskPosition(199000)],
    open_risk |-> 50000]}

InitRisk ==
  /\ conn = "MT5Connector"
  /\ bid = 200200
  /\ now = ClockStart
  /\ bar_time = BarOf(now)
  /\ positions = <<>>
  /\ next_ticket = 1
  /\ InitProgram
  /\ admission \in [state : {"ready"}, balance : RiskBalances, book : Books,
                    new_risk : NewRisks]
  /\ IdleUnits("risk")

CheckAdmission ==
  /\ admission.state = "ready"
  /\ LET r == can_open_new_position(admission.balance, admission.book.plist,
                                    admission.new_risk, max_positions)
     IN  admission' = [state |-> "done", balance |-> admission.balance,
                       book |-> admission.book,
                       new_risk |-> admission.new_risk,
                       ok |-> r.ok, reason |-> r.reason]
  /\ UNCHANGED <<mainVars, sendUnit, gateUnit, regimeUnit, settingsUnit,
                 entryUnit, profitUnit, indicatorUnit,
                 modeUnit,
                 strategyUnit,
                 dailyUnit,
                 lotUnit,
                 scaleUnit,
                 signalUnit,
                 calibrationUnit>>

NextRisk == CheckAdmission

SpecRisk == InitRisk /\ [][NextRisk]_vars

\* ------------------------------------------------- the setters alone
\* The setters of the settings menu (main.py, lines 183-236) called with
\* values inside and outside the ranges and with a text.
SetterValues(key) ==
  CASE key = "risk_per_trade_pct" -> {Num(80), Num(0), Text}
    [] key = "max_total_risk_pct" -> {Num(10), Num(5)}
    [] key = "max_positions" -> {Num(99)}
    [] key = "max_spread" -> {Num(60), Num(9999), Text}
    [] OTHER -> {Num(5), Text}

InitSettings ==
  /\ conn = "MT5Connector"
  /\ bid = 200200
  /\ now = ClockStart
  /\ bar_time = BarOf(now)
  /\ positions = <<>>
  /\ next_ticket = 1
  /\ InitProgram
  /\ IdleSettings
  /\ IdleUnits("settings")

SetterReturns(key, v, r) ==
  /\ settings_cache' = r.cache
  /\ settings_file' = r.file
  /\ setter_call' = [state |-> "done", key |-> key, value |-> v,
                     result |-> r.result, cache_before |-> settings_cache,
                     file_before |-> settings_file]
  /\ UNCHANGED <<mainVars, sendUnit, gateUnit, regimeUnit, riskUnit,
                 entryUnit, profitUnit, indicatorUnit,
                 modeUnit,
                 strategyUnit,
                 dailyUnit,
                 lotUnit,
                 scaleUnit,
                 signalUnit,
                 calibrationUnit>>

SetVal(key, v, disk_ok) ==
  /\ key # "max_spread"
  /\ v \in SetterValues(key)
  /\ SetterReturns(key, v,
       set_val(settings_cache, settings_file, key, v, disk_ok))

SetMaxSpread(v, disk_ok) ==
  /\ v \in SetterValues("max_spread")
  /\ SetterReturns("max_spread", v,
       set_max_spread(settings_cache, settings_file, v, disk_ok))

AllSetterValues == UNION {SetterValues(k) : k \in SettingKeys}

NextSettings ==
  \/ \E key \in SettingKeys, v \in AllSetterValues, disk_ok \in BOOLEAN :
       SetVal(key, v, disk_ok)
  \/ \E v \in AllSetterValues, disk_ok \in BOOLEAN : SetMaxSpread(v, disk_ok)

SpecSettings == InitSettings /\ [][NextSettings]_vars

\* ------------------------------------- the analysis-to-order path alone
\* check_for_new_entry from the analysis on (lines 163-287), with the gate
\* open, on series of every length the entry path lets through and on every
\* answer of the analysis, the validation, the account query and the broker.
\* c.bars: the length of the main series; c.scores: what the analysis finds
\* in a series long enough; c.ema_ok: the EMA-200 filter lets a direction
\* through; c.atr: what ATR.calculate gives (0: nothing).
ValidateMinBars == 200
EntryBars == {150, 200, 205}

analyze(bars, scores) == IF bars < AnalyzeMinBars THEN "NEUTRAL" ELSE scores

validate_signal(signal_type, bars, ema_ok) ==
  IF bars < ValidateMinBars THEN FALSE
  ELSE IF signal_type \in {"BUY", "SELL"} THEN ema_ok ELSE TRUE

EntryOutcome(action, atr_computed, sltp_attempted, sent) ==
  [action |-> action, atr_computed |-> atr_computed,
   sltp_attempted |-> sltp_attempted, sent |-> sent]

entry_path(c) ==
  LET signal_type == analyze(c.bars, c.scores)
      entry_price == IF signal_type = "BUY" THEN Ask(bid) ELSE bid
      sltp        == calculate_sl_tp(entry_price, signal_type, c.atr, "AUTO")
      lot_size    == calculate_optimal_lot_size(c.balance, entry_price, sltp.sl)
      risk        == calculate_position_risk(entry_price, sltp.sl, lot_size)
      can_open    == can_open_new_position(c.balance, <<>>, risk, max_positions)
      result      == send_order(TRUE, lot_size, c.answers)
  IN  IF signal_type = "NONE"
      THEN EntryOutcome("NONE", FALSE, FALSE, FALSE)
      ELSE IF ~validate_signal(signal_type, c.bars, c.ema_ok)
      THEN EntryOutcome("REJECTED", FALSE, FALSE, FALSE)
      ELSE IF ~c.account_ok
      THEN EntryOutcome("FAILED", FALSE, FALSE, FALSE)
      \* the analysis of a short series carries no ATR: line 221 computes it
      ELSE IF c.atr = 0
      THEN EntryOutcome("FAILED", TRUE, FALSE, FALSE)
      ELSE IF ~sltp.ok
      THEN EntryOutcome("FAILED", TRUE, TRUE, FALSE)
      ELSE IF ~can_open.ok
      THEN EntryOutcome("REJECTED", TRUE, TRUE, FALSE)
      ELSE IF ~result.ok
      THEN EntryOutcome("FAILED", TRUE, TRUE, TRUE)
      ELSE EntryOutcome("EXECUTED", TRUE, TRUE, TRUE)

InitEntry ==
  /\ conn = "Conforming"
  /\ bid = 200200
  /\ now = ClockStart
  /\ bar_time = BarOf(now)
  /\ positions = <<>>
  /\ next_ticket = 1
  /\ InitProgram
  /\ entry_call \in [state : {"ready"}, bars : EntryBars,
                     scores : {"NONE", "BUY", "SELL"}, ema_ok : BOOLEAN,
                     account_ok : BOOLEAN, atr : EntryAtrValues,
                     balance : Balances, answers : EntryAnswerSeqs]
  /\ IdleUnits("entry")

EntryPath ==
  /\ entry_call.state = "ready"
  /\ entry_call' = [state |-> "done", bars |-> entry_call.bars,
                    signal_type |-> analyze(entry_call.bars, entry_call.scores),
                    out |-> entry_path(entry_call)]
  /\ UNCHANGED <<mainVars, sendUnit, gateUnit, regimeUnit, riskUnit,
                 settingsUnit, profitUnit, indicatorUnit,
                 modeUnit,
                 strategyUnit,
                 dailyUnit,
                 lotUnit,
                 scaleUnit,
                 signalUnit,
                 calibrationUnit>>

NextEntry == EntryPath

SpecEntry == InitEntry /\ [][NextEntry]_vars

\* --------------------------------------- the profit-target manager alone
\* One stats file, a manager that records trade results, days that pass and
\* restarts that construct a new manager on the file.
MaxDay == 2
MaxProfitTrades == 2
TradeProfits == {0 - 500, 1500}

InitProfit ==
  /\ conn = "MT5Connector"
  /\ bid = 200200
  /\ now = ClockStart
  /\ bar_time = BarOf(now)
  /\ positions = <<>>
  /\ next_ticket = 1
  /\ InitProgram
  /\ pt_today = 1
  /\ \E enabled \in BOOLEAN :
       LET l == load_daily_stats(NewManager(enabled), NoStatsFile, 1, TRUE)
       IN  pt_manager = l.m /\ pt_file = l.file
  /\ pt_recorded = [date |-> 1, stats |-> ZeroStats]
  /\ pt_restart = [state |-> "idle"]
  /\ pt_gate = NoGateAnswer
  /\ IdleUnits("profit")

ProfitFrame ==
  UNCHANGED <<mainVars, sendUnit, gateUnit, regimeUnit, riskUnit,
              settingsUnit, entryUnit, indicatorUnit,
                 modeUnit,
                 strategyUnit,
                 dailyUnit,
                 lotUnit,
                 scaleUnit,
                 signalUnit,
                 calibrationUnit>>

Midnight ==
  /\ pt_today < MaxDay
  /\ pt_today' = pt_today + 1
  /\ UNCHANGED <<pt_manager, pt_file, pt_recorded, pt_restart, pt_gate>>
  /\ ProfitFrame

\* can_trade (main.py, line 593) and _check_daily_limits load the statistics.
LoadDailyStats(disk_ok) ==
  /\ LET l == load_daily_stats(pt_manager, pt_file, pt_today, disk_ok)
     IN  /\ pt_manager' = l.m
         /\ pt_file' = l.file
         /\ pt_recorded' = IF l.saved
                           THEN [date |-> pt_today, stats |-> StatsOf(l.m)]
                           ELSE pt_recorded
  /\ UNCHANGED <<pt_today, pt_restart, pt_gate>>
  /\ ProfitFrame

\* trading_cycle, line 593: the profit-target gate of a tick.
CanTrade(disk_ok) ==
  /\ LET l == IF pt_manager.enabled
              THEN load_daily_stats(pt_manager, pt_file, pt_today, disk_ok)
              ELSE [m |-> pt_manager, file |-> pt_file, saved |-> FALSE]
         r == IF l.saved THEN [date |-> pt_today, stats |-> StatsOf(l.m)]
              ELSE pt_recorded
     IN  /\ pt_manager' = l.m
         /\ pt_file' = l.file
         /\ pt_recorded' = r
         /\ pt_gate' = [state |-> "done", day |-> pt_today,
                        enabled |-> pt_manager.enabled,
                        ok |-> ptm_can_trade(l.m), recorded |-> r,
                        traded_today |-> pt_gate.last_trade_day = pt_today,
                        last_trade_day |-> pt_gate.last_trade_day]
  /\ UNCHANGED <<pt_today, pt_restart>>
  /\ ProfitFrame

AddTradeResult(profit, disk_ok, disk_ok2) ==
  /\ pt_manager.enabled
  /\ pt_manager.today_trades < MaxProfitTrades
  /\ LET m1 == [pt_manager EXCEPT !.today_profit = @ + profit,
                                  !.today_trades = @ + 1]
         f1 == save_stats(m1, pt_file, pt_today, disk_ok)
         r1 == IF disk_ok THEN [date |-> pt_today, stats |-> StatsOf(m1)]
               ELSE pt_recorded
         hit == ~m1.target_reached /\ m1.today_profit >= daily_target_cents
         m2 == [m1 EXCEPT !.target_reached = TRUE]
     IN  IF hit
         THEN /\ pt_manager' = m2
              /\ pt_file' = save_stats(m2, f1, pt_today, disk_ok2)
              /\ pt_recorded' =
                   IF disk_ok2 THEN [date |-> pt_today, stats |-> StatsOf(m2)]
                   ELSE r1
         ELSE /\ pt_manager' = m1
              /\ pt_file' = f1
              /\ pt_recorded' = r1
  /\ pt_gate' = [pt_gate EXCEPT !.last_trade_day = pt_today]
  /\ UNCHANGED <<pt_today, pt_restart>>
  /\ ProfitFrame

\* The process ends and a new one constructs its manager on the file.
Restart(disk_ok) ==
  /\ LET l == load_daily_stats(NewManager(pt_manager.enabled), pt_file,
                               pt_today, disk_ok)
     IN  /\ pt_manager' = l.m
         /\ pt_file' = l.file
         /\ pt_recorded' = IF l.saved
                           THEN [date |-> pt_today, stats |-> StatsOf(l.m)]
                           ELSE pt_recorded
         /\ pt_restart' = [state |-> "done", at |-> pt_today,
                           recorded |-> pt_recorded, after |-> StatsOf(l.m)]
  /\ UNCHANGED <<pt_today, pt_gate>>
  /\ ProfitFrame

NextProfit ==
  \/ Midnight
  \/ \E disk_ok \in BOOLEAN : LoadDailyStats(disk_ok)
  \/ \E profit \in TradeProfits, disk_ok, disk_ok2 \in BOOLEAN :
       AddTradeResult(profit, disk_ok, disk_ok2)
  \/ \E disk_ok \in BOOLEAN : Restart(disk_ok)
  \/ \E disk_ok \in BOOLEAN : CanTrade(disk_ok)

SpecProfit == InitProfit /\ [][NextProfit]_vars

\* ------------------------------------------------- one indicator alone
\* An indicator of any kind is asked for its value on series of every
\* length around its window, ending in one of two bars.
SeriesLengths == {0, 10, 14, 15, 19, 20, 25, 26, 30}
SeriesBars == {1, 2}
SeriesBodies == {1, 2}

InitIndicator ==
  /\ conn = "MT5Connector"
  /\ bid = 200200
  /\ now = ClockStart
  /\ bar_time = BarOf(now)
  /\ positions = <<>>
  /\ next_ticket = 1
  /\ InitProgram
  /\ indicator \in {NewIndicator(k) : k \in Indicators}
  /\ ind_out = [state |-> "idle"]
  /\ IdleUnits("indicator")

IndicatorValue(series) ==
  /\ LET r == indicator_value(indicator, series)
     IN  /\ indicator' = r.ind
         /\ ind_out' = [state |-> "done", series |-> series,
                        result |-> r.result, cached |-> indicator]
  /\ UNCHANGED <<mainVars, sendUnit, gateUnit, regimeUnit, riskUnit,
                 settingsUnit, entryUnit, profitUnit,
                 modeUnit,
                 strategyUnit,
                 dailyUnit,
                 lotUnit,
                 scaleUnit,
                 signalUnit,
                 calibrationUnit>>

NextIndicator ==
  \E l \in SeriesLengths, b \in SeriesBars, body \in SeriesBodies :
    IndicatorValue([len |-> l, bar |-> b, body |-> body])

SpecIndicator == InitIndicator /\ [][NextIndicator]_vars

\* ---------------------------------------------------- the mode alone
\* Ticks of the main loop as far as the mode goes: the session rules at the
\* top, then the analysis of the entry path; the listener's mode buttons at
\* any moment.
InitMode ==
  /\ conn = "MT5Connector"
  /\ bid = 200200
  /\ now = ClockStart
  /\ bar_time = BarOf(now)
  /\ positions = <<>>
  /\ next_ticket = 1
  /\ InitProgram
  /\ strategy_mode_override = "AUTO"
  /\ operator_mode = "AUTO"
  /\ mode_tick \in {[pc |-> "top", style |-> st] : st \in TradingStyles}
  /\ mode_call = [state |-> "idle"]
  /\ IdleUnits("mode")

ModeFrame ==
  UNCHANGED <<mainVars, sendUnit, gateUnit, regimeUnit, riskUnit,
              settingsUnit, entryUnit, profitUnit, indicatorUnit,
                 strategyUnit,
                 dailyUnit,
                 lotUnit,
                 scaleUnit,
                 signalUnit,
                 calibrationUnit>>

\* trading_cycle, lines 571-584: the tick goes on when the status is NORMAL.
ApplySessionRules(session, asia_pref) ==
  /\ mode_tick.pc = "top"
  /\ LET r == apply_session_rules(strategy_mode_override, session, asia_pref)
     IN  /\ strategy_mode_override' = r.mode
         /\ mode_tick' = [mode_tick EXCEPT
              !.pc = IF r.status = "NORMAL" THEN "entry" ELSE "top"]
  /\ UNCHANGED <<operator_mode, mode_call>>
  /\ ModeFrame

\* handle_query, lines 216-218.
OperatorSetsMode(cmd) ==
  /\ strategy_mode_override' = ModeOfCommand(cmd)
  /\ operator_mode' = ModeOfCommand(cmd)
  /\ UNCHANGED <<mode_tick, mode_call>>
  /\ ModeFrame

\* check_for_new_entry calls analyze() on a series long enough.
Analyze(regime) ==
  /\ mode_tick.pc = "entry"
  /\ mode_call' = [state |-> "done", regime |-> regime,
                   operator |-> operator_mode,
                   mode |-> analysis_mode(strategy_mode_override,
                                          mode_tick.style, regime)]
  /\ mode_tick' = [mode_tick EXCEPT !.pc = "top"]
  /\ UNCHANGED <<strategy_mode_override, operator_mode>>
  /\ ModeFrame

\* The gates refuse or the entry path ends before the analysis.
NoAnalysis ==
  /\ mode_tick.pc = "entry"
  /\ mode_tick' = [mode_tick EXCEPT !.pc = "top"]
  /\ UNCHANGED <<strategy_mode_override, operator_mode, mode_call>>
  /\ ModeFrame

NextMode ==
  \/ \E session \in Sessions, asia_pref \in AsiaModes :
       ApplySessionRules(session, asia_pref)
  \/ \E cmd \in AllModeCommands : OperatorSetsMode(cmd)
  \/ \E regime \in RegimeLabelSet : Analyze(regime)
  \/ NoAnalysis

SpecMode == InitMode /\ [][NextMode]_vars

\* ------------------------------------------ manage_positions alone
\* One call of manage_positions on an executor that tracks one open
\* position of its own, for each gateway.  The position query and the quote
\* succeed and the broker accepts every stop modification; the lookup by
\* ticket fails only where the gateway has none.
ManagedVolumes == {1, 5}

ManagedInputs ==
  {[type |-> "BUY", volume |-> v, price_open |-> 199820, sl |-> sl,
    tp |-> 200400] : v \in ManagedVolumes, sl \in {199685, NoSl}}
  \cup
  {[type |-> "SELL", volume |-> v, price_open |-> 200200, sl |-> 200335,
    tp |-> 199600] : v \in ManagedVolumes}

InitManage ==
  /\ conn \in Connectors
  /\ bid \in PriceGrid
  /\ now = ClockStart
  /\ bar_time = BarOf(now)
  /\ \E p \in ManagedInputs :
       /\ positions = (1 :> p)
       /\ managed_positions = (1 :> p.type)
  /\ next_ticket = 2
  /\ scaled_out_tickets \in SUBSET {1}
  /\ at_breakeven_tickets \in SUBSET {1}
  /\ last_trade_close_time = 0
  /\ last_order_open_time = 0
  /\ last_order_bar_time = NoBarTime
  /\ opened_log = <<>>
  /\ bot_state = "RUNNING"
  /\ trading_mode = "AUTO"
  /\ regime_details = TRUE
  /\ last_signal_details = "DICT"
  /\ is_running = TRUE
  /\ pc = "manage"
  /\ open_tickets = <<>>
  /\ symbol_info = 0
  /\ atr_value = 0
  /\ m_act = NoAct
  /\ phase_log = <<"reconcile">>
  /\ tick_sends = 0
  /\ tick_new = 0
  /\ be_count = [t \in Tickets |-> 0]
  /\ so_count = [t \in Tickets |-> 0]
  /\ user_paused = FALSE
  /\ reported = [t \in Tickets |-> 0]
  /\ IdleUnits("none")

NextManage ==
  \/ \E atr \in ManageAtrValues : ManageBegin(TRUE, TRUE, atr)
  \/ ~accepts_ticket_lookup(conn) /\ ManageSkip
  \/ \E so_ok \in BOOLEAN : ManageTicket(so_ok, TRUE)
  \/ ManageSetFlags

SpecManage == InitManage /\ [][NextManage]_vars

\* ------------------------------ the regime handed to the strategy, alone
\* The live loop recomputes the regime at most every 60 s and hands it on
\* (detect_and_update_regime); the backtester does so on every bar (_tick).
MaxRegimeUpdates == 3

InitStrategy ==
  /\ conn = "MT5Connector"
  /\ bid = 200200
  /\ now = ClockStart
  /\ bar_time = BarOf(now)
  /\ positions = <<>>
  /\ next_ticket = 1
  /\ InitProgram
  /\ strategy \in {NewStrategy(st) : st \in TradingStyles}
  /\ bot_regime \in {NewBotRegime(r) : r \in {"live", "backtest"}}
  /\ IdleUnits("strategy")

StrategyFrame ==
  UNCHANGED <<mainVars, sendUnit, gateUnit, regimeUnit, riskUnit,
              settingsUnit, entryUnit, profitUnit, indicatorUnit, modeUnit,
                 dailyUnit,
                 lotUnit,
                 scaleUnit,
                 signalUnit,
                 calibrationUnit>>

\* GoldScalperBot.detect_and_update_regime, with a series long enough.
DetectAndUpdateRegime(a) ==
  /\ bot_regime.runner = "live"
  /\ bot_regime.updates < MaxRegimeUpdates
  /\ IF a.regime # bot_regime.current_regime
     THEN /\ bot_regime' = [bot_regime EXCEPT
                 !.current_regime = a.regime, !.regime_details = a.details,
                 !.newest = a, !.updates = @ + 1]
          /\ strategy' = update_dynamic_confidence(strategy, a.regime, a.details)
     ELSE /\ bot_regime' = [bot_regime EXCEPT
                 !.regime_details = a.details, !.newest = a, !.updates = @ + 1]
          /\ UNCHANGED strategy
  /\ StrategyFrame

\* Backtester._tick, lines 186-189.
BacktestTick(a) ==
  /\ bot_regime.runner = "backtest"
  /\ bot_regime.updates < MaxRegimeUpdates
  /\ bot_regime' = [bot_regime EXCEPT
          !.current_regime = a.regime, !.newest = a, !.updates = @ + 1]
  /\ strategy' = update_dynamic_confidence(strategy, a.regime, a.details)
  /\ StrategyFrame

NextStrategy ==
  \E a \in Assessments : DetectAndUpdateRegime(a) \/ BacktestTick(a)

SpecStrategy == InitStrategy /\ [][NextStrategy]_vars

\* ------------------------------------------- the daily loss limit alone
\* One day: closed trades are handed to add_trade_result and the entry path
\* asks _check_daily_limits before it goes on to the order.
MaxDailyTrades == 2
DailyResults == {0 - 6000, 0 - 2000, 1500}
DailyBalances == {1000, 5000}

InitDaily ==
  /\ conn = "MT5Connector"
  /\ bid = 200200
  /\ now = ClockStart
  /\ bar_time = BarOf(now)
  /\ positions = <<>>
  /\ next_ticket = 1
  /\ InitProgram
  /\ daily \in {NewDaily(e) : e \in BOOLEAN}
  /\ daily_check = [state |-> "idle"]
  /\ IdleUnits("daily")

DailyFrame ==
  UNCHANGED <<mainVars, sendUnit, gateUnit, regimeUnit, riskUnit,
              settingsUnit, entryUnit, profitUnit, indicatorUnit, modeUnit,
              strategyUnit,
                 lotUnit,
                 scaleUnit,
                 signalUnit,
                 calibrationUnit>>

\* trading_cycle, lines 614-618: a trade reconciliation found closed.
TradeClosed(profit) ==
  /\ daily.closed < MaxDailyTrades
  /\ daily' = [m |-> add_trade_result(daily.m, profit),
               realized |-> daily.realized + profit,
               closed |-> daily.closed + 1]
  /\ UNCHANGED daily_check
  /\ DailyFrame

\* check_for_new_entry, lines 204-207.
CheckDailyLimits(balance) ==
  /\ daily_check' = [state |-> "done", balance |-> balance,
                     realized |-> daily.realized,
                     ok |-> check_daily_limits(daily.m, balance)]
  /\ UNCHANGED daily
  /\ DailyFrame

NextDaily ==
  \/ \E profit \in DailyResults : TradeClosed(profit)
  \/ \E balance \in DailyBalances : CheckDailyLimits(balance)

SpecDaily == InitDaily /\ [][NextDaily]_vars

\* --------------------------------------- the tick's lot and its order
\* A tick of trading_cycle computes the multiplier and stores the product
\* in the executor's trading_config; the entry evaluation of the tick then
\* sizes its order.
BaseLots == {1, 10}
LotRegimes == {"TRENDING", "RANGING", "VOLATILE", "BREAKOUT", "NEUTRAL",
               "UNKNOWN"}
LotBalances == {5, 9, 40, 1000}
LotAtrValues == {100, 400}

InitLot ==
  /\ conn = "MT5Connector"
  /\ bid = 200200
  /\ now = ClockStart
  /\ bar_time = BarOf(now)
  /\ positions = <<>>
  /\ next_ticket = 1
  /\ InitProgram
  /\ lot_call \in {[state |-> "idle", base |-> b] : b \in BaseLots}
  /\ IdleUnits("lot")

LotFrame ==
  UNCHANGED <<mainVars, sendUnit, gateUnit, regimeUnit, riskUnit,
              settingsUnit, entryUnit, profitUnit, indicatorUnit, modeUnit,
              strategyUnit, dailyUnit,
                 scaleUnit,
                 signalUnit,
                 calibrationUnit>>

\* trading_cycle, lines 598-604.
ComputeLot(regime, is_high_vol) ==
  /\ lot_call.state # "lot"
  /\ lot_call.base > 0
  /\ LET mult == lot_multiplier_x100(regime, is_high_vol)
     IN  lot_call' = [state |-> "lot", base |-> lot_call.base,
                      mult |-> mult,
                      default_lot |-> final_lot(lot_call.base, mult)]
  /\ LotFrame

\* check_for_new_entry, lines 232-261: stop, size, order.
SizeAndSend(balance, entry_price, signal, atr, mode) ==
  /\ lot_call.state = "lot"
  /\ LET sltp == calculate_sl_tp(entry_price, signal, atr, mode)
         lot_size == calculate_optimal_lot_size(balance, entry_price,
                                                sltp.sl)
     IN  lot_call' = [state |-> "sent", base |-> lot_call.base,
                      mult |-> lot_call.mult,
                      default_lot |-> lot_call.default_lot,
                      balance |-> balance,
                      sl_dist |-> Abs(entry_price - sltp.sl),
                      volume |-> lot_size]
  /\ LotFrame

NextLot ==
  \/ \E regime \in LotRegimes, is_high_vol \in BOOLEAN :
       ComputeLot(regime, is_high_vol)
  \/ \E balance \in LotBalances, entry_price \in PriceGrid,
        signal \in {"BUY", "SELL"}, atr \in LotAtrValues,
        mode \in {"AUTO", "SNIPER_ONLY"} :
       SizeAndSend(balance, entry_price, signal, atr, mode)

SpecLot == InitLot /\ [][NextLot]_vars

\* ------------------------------- one position under lifecycle management
\* A position the process opened, with the stop set at entry, is managed
\* tick after tick at the prices the ticks see; the instrument has its own
\* volume step and minimum.
MaxManagePasses == 3
Instruments == {<<1, 1>>, <<10, 10>>, <<100, 100>>}
ScaleLots == {1, 2, 5}
ScalePrices == {200000, 200100, 200160, 200230, 200300}

InitScale ==
  /\ conn = "MT5Connector"
  /\ bid = 200200
  /\ now = ClockStart
  /\ bar_time = BarOf(now)
  /\ positions = <<>>
  /\ next_ticket = 1
  /\ InitProgram
  /\ \E i \in Instruments, n \in ScaleLots :
       scale_pos = NewScalePos([type |-> "BUY", volume |-> n * i[1],
                                price_open |-> 200000, sl |-> 199850,
                                tp |-> 200400], i[1], i[2])
  /\ IdleUnits("scale")

ScaleFrame ==
  UNCHANGED <<mainVars, sendUnit, gateUnit, regimeUnit, riskUnit,
              settingsUnit, entryUnit, profitUnit, indicatorUnit, modeUnit,
              strategyUnit, dailyUnit, lotUnit,
                 signalUnit,
                 calibrationUnit>>

\* manage_positions, lines 366-406, for the position: scale-out, breakeven,
\* trailing stop, the broker accepting what it is asked.
ManagePosition(price, atr) ==
  /\ scale_pos.passes < MaxManagePasses
  /\ scale_pos.pos.volume > 0
  /\ LET position == scale_pos.pos
         flag     == scale_pos.is_at_breakeven
         lot      == IF scale_pos.has_scaled_out THEN 0
                     ELSE check_scale_out(position, price)
         scaled   == lot > 0
         closed   == IF scaled
                     THEN partial_close_position(position.volume, lot,
                                                 scale_pos.step,
                                                 scale_pos.min_vol)
                     ELSE 0
         \* a stop modification fails once the position is gone
         open     == closed < position.volume
         be       == should_move_to_breakeven(position, price)
         moved    == ~flag /\ be.ok /\ be.sl # NoSl /\ open
         trail_sl == IF flag
                     THEN calculate_trailing_stop(position, price, atr)
                     ELSE NoSl
         trailed  == trail_sl # NoSl /\ position.sl # trail_sl /\ open
         sl_after == IF moved THEN be.sl
                     ELSE IF trailed THEN trail_sl ELSE position.sl
     IN  scale_pos' =
           [scale_pos EXCEPT
              !.pos = [position EXCEPT !.sl = sl_after,
                                       !.volume = @ - closed],
              !.has_scaled_out = @ \/ scaled,
              !.is_at_breakeven = @ \/ moved,
              !.passes = @ + 1,
              !.last = IF scaled
                       THEN [scaled |-> TRUE,
                             profit |-> price - position.price_open,
                             volume |-> position.volume, closed |-> closed]
                       ELSE NoScaleOut]
  /\ ScaleFrame

NextScale ==
  \E price \in ScalePrices, atr \in ManageAtrValues :
     ManagePosition(price, atr)

SpecScale == InitScale /\ [][NextScale]_vars

\* ------------------------------------------------ the final signal alone
\* analyze() from the scores on, for every style's thresholds, every mode and
\* the scores the indicators of a mode can add up to, with and without the
\* higher-timeframe bonus and penalty.
ScoreValues == {0, 75, 120, 150, 200, 250, 300, 450}

InitSignal ==
  /\ conn = "MT5Connector"
  /\ bid = 200200
  /\ now = ClockStart
  /\ bar_time = BarOf(now)
  /\ positions = <<>>
  /\ next_ticket = 1
  /\ InitProgram
  /\ signal_call \in [state : {"ready"}, style : TradingStyles,
                      mode : ScoringModes, buy_score : ScoreValues,
                      sell_score : ScoreValues]
  /\ IdleUnits("signal")

FinalSignal ==
  /\ signal_call.state = "ready"
  /\ LET st == NewStrategy(signal_call.style)
         r  == final_signal(st, signal_call.mode, signal_call.buy_score,
                            signal_call.sell_score)
     IN  signal_call' = [state |-> "done", mode |-> signal_call.mode,
                         buy_score |-> signal_call.buy_score,
                         sell_score |-> signal_call.sell_score,
                         need |-> 10 * min_conf_needed(st, signal_call.mode),
                         signal_type |-> r.signal_type,
                         confidence |-> r.confidence]
  /\ UNCHANGED <<mainVars, sendUnit, gateUnit, regimeUnit, riskUnit,
                 settingsUnit, entryUnit, profitUnit, indicatorUnit,
                 modeUnit, strategyUnit, dailyUnit, lotUnit, scaleUnit,
                 calibrationUnit>>

NextSignal == FinalSignal

SpecSignal == InitSignal /\ [][NextSignal]_vars

\* ------------------------------------------- calibration in the live loop
\* Start-up calibrates on the 500 bars it asks for when the gateway has 200
\* of them; after that the main loop evaluates the regime on the bars
\* detect_and_update_regime fetches, more than a minute after the previous
\* evaluation.  The clock counts steps of RegimeClockSeconds.
MaxLiveChecks == 3
LiveSeries == {s \in RegimeSeries : SeriesData[s].bars <= LiveRegimeBars}
CheckDelays == {3, 300, 481}

InitCalibration ==
  /\ conn = "MT5Connector"
  /\ bid = 200200
  /\ now = ClockStart
  /\ bar_time = BarOf(now)
  /\ positions = <<>>
  /\ next_ticket = 1
  /\ InitProgram
  /\ live_detector = NewLiveDetector
  /\ IdleUnits("calibration")

CalibrationFrame ==
  UNCHANGED <<mainVars, sendUnit, gateUnit, regimeUnit, riskUnit,
              settingsUnit, entryUnit, profitUnit, indicatorUnit, modeUnit,
              strategyUnit, dailyUnit, lotUnit, scaleUnit, signalUnit>>

\* main.py, lines 453-458: s is what the gateway has of the 500 bars.
CalibrateAtStart(s) ==
  /\ ~live_detector.started
  /\ live_detector' =
       [live_detector EXCEPT
          !.started = TRUE,
          !.d = IF SeriesData[s].bars >= calibration_bars
                THEN calibrate_thresholds(@, SeriesData[s], live_detector.now)
                ELSE @]
  /\ CalibrationFrame

\* trading_cycle, lines 585-589, and detect_and_update_regime, lines 629-633.
LiveRegimeCheck(s, delay) ==
  /\ live_detector.started
  /\ live_detector.checks < MaxLiveChecks
  /\ delay * RegimeClockSeconds > 60
  /\ LET t   == live_detector.now + delay
         d   == live_detector.d
         due == \/ ~d.is_calibrated
                \/ /\ d.last_calibration_time # NoTime
                   /\ (t - d.last_calibration_time) * RegimeClockSeconds
                        > recalibration_seconds
         r   == IF SeriesData[s].bars < required_bars
                THEN [detector |-> d]
                ELSE detect_regime(d, SeriesData[s], TRUE, t)
     IN  live_detector' =
           [live_detector EXCEPT
              !.d = r.detector, !.now = t, !.checks = @ + 1,
              !.last = [state |-> "done", at |-> t, due |-> due,
                        evaluated |-> SeriesData[s].bars >= required_bars,
                        calibrated_before |-> d.last_calibration_time]]
  /\ CalibrationFrame

NextCalibration ==
  \/ \E s \in RegimeSeries : CalibrateAtStart(s)
  \/ \E s \in LiveSeries, delay \in CheckDelays : LiveRegimeCheck(s, delay)

SpecCalibration == InitCalibration /\ [][NextCalibration]_vars

\* ================================================================ claims

\* C1: within a tick in which trading is admissible, reconciliation has
\* completed before lifecycle management starts, lifecycle management before
\* the exit check starts, and the exit check before the entry evaluation
\* starts: the steps completed so far in the tick are always a prefix of
\* reconcile, manage, exit, entry, and a step runs only when exactly the
\* steps before it have completed.
C1_PhaseOrder ==
  /\ Len(phase_log) <= 4
  /\ phase_log = SubSeq(<<"reconcile", "manage", "exit", "entry">>, 1,
                        Len(phase_log))
  /\ pc = "reconcile" => Len(phase_log) = 0
  /\ pc \in {"manage", "mloop", "mflag"} => Len(phase_log) = 1
  /\ pc = "exit" => Len(phase_log) = 2
  /\ pc = "entry" => Len(phase_log) = 3

\* A tick ran all four steps and the lifecycle step had a position to manage.
C1_Witness ==
  /\ pc = "sleep"
  /\ Len(phase_log) = 4
  /\ at_breakeven_tickets # {}

\* C2: in any single tick send_order is called at most once and at most one
\* ticket is added to the tracked state.
C2_OneOrderPerTick == tick_sends <= 1 /\ tick_new <= 1

\* A tick submitted an order and tracked the ticket it got.
C2_Witness == tick_sends = 1 /\ tick_new = 1 /\ managed_positions # <<>>

\* C3: while a position is open, over any number of ticks, its breakeven
\* move is executed at most once and its scale-out is executed at most once.
C3_OnceEach == \A t \in Tickets : be_count[t] <= 1 /\ so_count[t] <= 1

\* A position that was scaled out and moved to breakeven is managed again in
\* a later iteration, which trails its stop.
C3_Witness ==
  \E t \in DOMAIN positions :
    /\ be_count[t] = 1
    /\ so_count[t] = 1
    /\ m_act.ticket = t
    /\ m_act.trail

\* C4: a trailing-stop modification is issued for a ticket only when its
\* at-breakeven flag was set, by a breakeven move that succeeded in an
\* earlier step, and never in the iteration that makes the breakeven move.
C4_TrailAfterBreakeven ==
  m_act.trail => (m_act.flag /\ m_act.moves >= 1 /\ ~m_act.be)

\* A trailing-stop modification was issued.
C4_Witness == pc = "mflag" /\ m_act.trail /\ m_act.new_sl # m_act.old_sl

\* C5: every stop modification lifecycle management issues (breakeven or
\* trailing) tightens the stop: for a BUY the new stop is above the stop the
\* position had, for a SELL it is below.
C5_StopTightens ==
  (m_act.be \/ m_act.trail) =>
    IF m_act.side = "BUY" THEN m_act.new_sl > m_act.old_sl
    ELSE m_act.new_sl < m_act.old_sl

\* The stop of a SELL was trailed after its breakeven move.
C5_Witness == m_act.trail /\ m_act.side = "SELL" /\ m_act.moves = 1

C7_TrackedEqualsOpen ==
  (pc = "sleep" /\ Len(phase_log) = 4) =>
    DOMAIN managed_positions = DOMAIN positions

\* C8: no exception raised by a step inside the loop body ends the control
\* loop: the loop is always running.
C8_LoopNeverStops == is_running /\ pc # "stopped"

\* C9, as stated: a step of the listener changes neither the broker's
\* positions nor the tracked state (tickets, flags, last-close time).
C9_ListenerFrame ==
  [][ListenerNext =>
       UNCHANGED <<positions, managed_positions, scaled_out_tickets,
                   at_breakeven_tickets, last_trade_close_time>>]_vars

\* C9, amended: besides the pause flag and the mode override the listener
\* can close positions.  It never opens or alters a position, never adds a
\* tracked ticket and never sets a flag; it drops a tracked ticket only for a
\* position it closed in that step, then together with both flags of the
\* ticket, and stamps the last-close time exactly then; the order-open time
\* and bar, the analysis details and the running flag are left alone.
C9_ListenerFrameAmended ==
  [][ListenerNext =>
       LET dropped == DOMAIN managed_positions \ DOMAIN managed_positions'
       IN  /\ UNCHANGED <<last_order_open_time, last_order_bar_time,
                          next_ticket, regime_details, last_signal_details,
                          is_running>>
           /\ DOMAIN positions' \subseteq DOMAIN positions
           /\ \A t \in DOMAIN positions' : positions'[t] = positions[t]
           /\ DOMAIN managed_positions' \subseteq DOMAIN managed_positions
           /\ \A t \in DOMAIN managed_positions' :
                managed_positions'[t] = managed_positions[t]
           /\ dropped \subseteq DOMAIN positions \ DOMAIN positions'
           /\ scaled_out_tickets' = scaled_out_tickets \ dropped
           /\ at_breakeven_tickets' = at_breakeven_tickets \ dropped
           /\ last_trade_close_time' =
                IF dropped # {} THEN now ELSE last_trade_close_time]_vars

\* The main thread is between the broker call and the flag write of an
\* iteration and the ticket it is working on is no longer tracked: the
\* listener's close-all has dropped it, with a flag it had.
C9_Witness ==
  /\ pc = "mflag"
  /\ m_act.ticket \notin DOMAIN managed_positions
  /\ m_act.flag
  /\ m_act.ticket \notin at_breakeven_tickets

\* C10, as stated: send_order goes on to the next fill mode only after the
\* broker rejected the attempt before it as an unsupported fill mode.
C10_AdvanceOnlyOnUnsupported ==
  o_out.state = "returned" =>
    \A i \in 1..(Len(o_out.tried) - 1) : o_in.answers[i] = "UNSUPPORTED"

\* C10, amended: send_order tries FOK, IOC, RETURN in this order and goes on
\* to the next mode only after an attempt the broker rejected as an
\* unsupported fill mode or answered with no result; it succeeds on the
\* first accepted attempt, fails on any other rejection or when the list is
\* exhausted, makes at most three attempts (none when the checks before the
\* loop fail), and the entry path calls it once.
C10_FillModeRetry ==
  o_out.state = "returned" =>
    LET n == Len(o_out.tried)
        a == o_in.answers
    IN  /\ n <= 3
        /\ o_out.tried = SubSeq(<<"FOK", "IOC", "RETURN">>, 1, n)
        /\ \A i \in 1..(n - 1) : a[i] \in {"UNSUPPORTED", "NONE"}
        /\ o_out.ok <=> (n >= 1 /\ a[n] = "DONE")
        /\ (~o_out.ok /\ n >= 1 /\ n < 3) => a[n] = "REJECTED"
        /\ n = 0 <=> (~o_in.pre_ok \/ o_in.volume <= 0)
        /\ o_out.calls = 1

\* The first mode was unsupported, the second got no result, the third was
\* accepted.
C10_Witness ==
  /\ o_out.state = "returned"
  /\ o_out.ok
  /\ o_out.tried = <<"FOK", "IOC", "RETURN">>
  /\ o_in.answers[1] = "UNSUPPORTED"
  /\ o_in.answers[2] = "NONE"

\* C11: after an order is opened at time t, no further order is submitted
\* before t + cooldown_bars * timeframe seconds, whatever the ticks in
\* between do: every step that calls send_order happens at least the
\* cooldown after every order opened so far.
C11_Cooldown ==
  [][tick_sends' > tick_sends =>
       \A i \in 1..Len(opened_log) :
         now - opened_log[i].time >= cooldown_bars * timeframe_seconds]_vars

\* An order was opened, its position has closed, and a tick in the next bar,
\* still inside the cooldown, evaluated the entry and submitted nothing.
C11_Witness ==
  /\ pc = "sleep"
  /\ Len(phase_log) = 4
  /\ tick_sends = 0
  /\ opened_log # <<>>
  /\ positions = <<>>
  /\ now > opened_log[1].time
  /\ now - opened_log[1].time < cooldown_bars * timeframe_seconds
  /\ bar_time # opened_log[1].bar


\* C12: with the one-order-per-bar limit enabled, no two orders are ever
\* opened while the main bar series has the same last-bar timestamp.
C12_OneOrderPerBar ==
  use_one_order_per_bar =>
    \A i, j \in 1..Len(opened_log) :
      i # j => opened_log[i].bar # opened_log[j].bar

\* An order was opened, the cooldown has run out, the series still ends with
\* the bar of that order, and the gate refused the entry.
C12_Witness ==
  /\ opened_log # <<>>
  /\ use_one_order_per_bar
  /\ gate.at - opened_log[Len(opened_log)].time
       >= cooldown_bars * timeframe_seconds
  /\ gate.bar = opened_log[Len(opened_log)].bar
  /\ ~gate.passed


\* C13: the regime a classification returns is a highest-scoring label,
\* except that whenever the breakout score reaches its trigger value the
\* returned regime is BREAKOUT whatever the other scores are.
C13_RegimeIsWinner ==
  regime_out.regime \notin {"NONE", "UNKNOWN"} =>
    IF regime_out.scores["BREAKOUT"] >= breakout_trigger_x2
    THEN regime_out.regime = "BREAKOUT"
    ELSE /\ regime_out.regime \in RegimeLabelSet
         /\ \A l \in RegimeLabelSet :
              regime_out.scores[l] <= regime_out.scores[regime_out.regime]

\* A classification returned BREAKOUT although the trending score was above
\* the breakout score.
C13_Witness ==
  /\ regime_out.regime = "BREAKOUT"
  /\ regime_out.scores["BREAKOUT"] >= breakout_trigger_x2
  /\ regime_out.scores["TRENDING"] > regime_out.scores["BREAKOUT"]

\* C14: classifying the same unchanged bar series twice yields the same
\* regime label and the same per-regime scores, whatever series was
\* classified in between and however much time passed between the calls.
C14_Idempotent ==
  regime_out.series = regime_log.series => regime_out = regime_log


\* C15: for a balance at or above the low-balance floor and a position count
\* below the maximum, entry admission rejects, with the over-limit reason,
\* exactly when the open positions' risk plus the new position's risk
\* exceeds balance * max-total-risk % * 1.2, and admits otherwise.
C15_RiskLimit ==
  (/\ admission.state = "done"
   /\ admission.balance >= low_balance_floor
   /\ Len(admission.book.plist)
        < RealMaxPositions(admission.balance, max_positions)) =>
    \* cents against dollars * tenths of a percent * 1.2
    LET over == (admission.book.open_risk + admission.new_risk) * 100
                  > admission.balance * max_total_risk_pct_x10 * 12
    IN  IF over
        THEN ~admission.ok /\ admission.reason = "Total Risk Limit"
        ELSE admission.ok

\* Open risk $480 plus new risk $60 on a $5,000 balance at 5 % is rejected.
C15_Witness ==
  /\ admission.state = "done"
  /\ admission.balance = 5000
  /\ admission.book.open_risk = 48000
  /\ admission.new_risk = 6000
  /\ max_total_risk_pct_x10 = 50
  /\ ~admission.ok
  /\ admission.reason = "Total Risk Limit"


\* C16: every configuration setter called with an out-of-range or wrongly
\* typed value rejects the write and leaves the previously stored value in
\* effect, in memory and on disk.
C16_SettersReject ==
  (/\ setter_call.state = "done"
   /\ setter_call.value.kind # "num"
        \/ ~InRange(setter_call.key, setter_call.value)) =>
    /\ setter_call.result \in {"False", "raised"}
    /\ settings_cache = setter_call.cache_before
    /\ settings_file = setter_call.file_before


\* C17: when the analysis is given fewer bars than its minimum, the entry
\* path treats the tick as having no signal: no stop or size computation and
\* no order submission is attempted, and the tick is not reported as a
\* failed entry.
C17_ShortSeriesIsNoSignal ==
  (entry_call.state = "done" /\ entry_call.bars < AnalyzeMinBars) =>
    /\ entry_call.signal_type = "NEUTRAL"
    /\ ~entry_call.out.atr_computed
    /\ ~entry_call.out.sltp_attempted
    /\ ~entry_call.out.sent
    /\ entry_call.out.action # "FAILED"


\* C18: a profit-target manager constructed after a restart on the date of
\* the last recording starts with the profit total, trade count and
\* target-reached flag last recorded before the restart, and one constructed
\* on a later date starts from zero with the flag cleared.
C18_StatsSurviveRestart ==
  pt_restart.state = "done" =>
    IF pt_restart.recorded.date = pt_restart.at
    THEN pt_restart.after = pt_restart.recorded.stats
    ELSE pt_restart.after = ZeroStats

\* A restart on the day the target was reached found the two trades, their
\* profit and the flag.
C18_Witness ==
  /\ pt_restart.state = "done"
  /\ pt_restart.recorded.date = pt_restart.at
  /\ pt_restart.after.trades = 2
  /\ pt_restart.after.profit >= daily_target_cents
  /\ pt_restart.after.target_reached


\* C19: for every indicator and every bar series shorter than the
\* indicator's minimum window the value is the 'unavailable' result: the
\* call does not raise and does not return a scalar an earlier, longer
\* series left in the cache.
C19_ShortSeriesUnavailable ==
  (/\ ind_out.state = "done"
   /\ ind_out.series.len < MinWindow(indicator.kind)) =>
    ind_out.result = Unavailable

\* A longer series ending in the same bar had filled the cache when the
\* short series was given.
C19_Witness ==
  /\ ind_out.state = "done"
  /\ ind_out.series.len < MinWindow(indicator.kind)
  /\ ind_out.series.len > 0
  /\ ind_out.cached.last_hash = ind_out.series.bar
  /\ ind_out.result = Unavailable


C21_OverrideStays ==
  (mode_call.state = "done" /\ mode_call.operator # "AUTO") =>
    mode_call.mode = mode_call.operator

C23_BreakevenMove ==
  pc = "exit" =>
    \A t \in TrackedOpen :
      LET pos    == positions[t]
          price  == get_current_price(bid, pos.type)
          risk   == Abs(pos.price_open - pos.sl)
          buffer == SpreadBuffer(pos.price_open)
          favour == IF pos.type = "BUY" THEN price - pos.price_open
                    ELSE pos.price_open - price
      IN  /\ (/\ pos.sl # NoSl
              /\ ~is_at_breakeven(t)
              /\ favour * 10 >= risk * breakeven_rr_x10
              /\ favour * 10000 > buffer) => FALSE
          /\ be_count[t] = 1 =>
               /\ is_at_breakeven(t)
               /\ pos.sl = RoundDiv(IF pos.type = "BUY"
                                    THEN pos.price_open * 10000 + buffer
                                    ELSE pos.price_open * 10000 - buffer,
                                    10000)

\* C24: in the live loop, with the gateway the program ships, the series
\* the exit check and the entry path hand to analyze() is never shorter
\* than analyze()'s minimum.
C24_SeriesLongEnough ==
  (conn = "MT5Connector" /\ pc \in {"exit", "entry"}) =>
    bars_served(conn, LiveFetchBars) >= AnalyzeMinBars

C28_SniperBounded ==
  strategy.min_conf_sniper <= NewStrategy(strategy.style).min_conf_sniper + 20

\* C30: after each regime recomputation the regime label and the detail
\* fields (direction, strength) the strategy holds are those of the newest
\* assessment.
C30_StrategyHasNewest ==
  bot_regime.updates > 0 =>
    /\ strategy.current_regime = bot_regime.newest.regime
    /\ strategy.regime_details = bot_regime.newest.details

\* C29: once the realized loss of the positions closed today is at or over
\* the daily-loss-limit percentage of the balance, the entry path is refused
\* before the order, with the profit-target feature enabled or not.
C29_DailyLossStops ==
  (daily_check.state = "done"
   /\ LossAtLimit(daily_check.realized, daily_check.balance)) =>
    ~daily_check.ok

\* C31: the volume of an order submitted in a tick is the configured base
\* lot times the lot multiplier the tick computed from the regime.
C31_VolumeIsScaledLot ==
  (lot_call.state = "sent" /\ lot_call.volume > 0)
    => lot_call.volume = lot_call.default_lot

\* C36: with a balance below the absolute minimum of $10 position sizing
\* returns 0 lots, whatever the stop distance.
C36_NoLotBelowMinimum ==
  (lot_call.state = "sent" /\ lot_call.balance < 10) => lot_call.volume = 0

C34_GateAfterTarget ==
  (pt_gate.state = "done" /\ pt_gate.enabled) =>
    /\ (/\ pt_gate.recorded.date = pt_gate.day
        /\ pt_gate.recorded.stats.profit >= daily_target_cents)
         => ~pt_gate.ok
    /\ ~pt_gate.traded_today => pt_gate.ok

\* C35: for every indicator and every series the value the indicator returns
\* is the value computed from scratch on that series, also when only the
\* high or low of the last bar changed and when the instance is given the
\* main and the higher-timeframe series in turn.
C35_MemoIsFromScratch ==
  (ind_out.state = "done" /\ ind_out.result.kind = "scalar")
    => ind_out.result.v = series_value(ind_out.series)

C38_SignalAboveThreshold ==
  signal_call.state = "done" =>
    /\ signal_call.signal_type = "BUY"
         <=> (/\ signal_call.buy_score > signal_call.need
              /\ signal_call.buy_score > signal_call.sell_score)
    /\ signal_call.signal_type = "SELL"
         <=> (/\ signal_call.sell_score > signal_call.need
              /\ signal_call.sell_score > signal_call.buy_score)
    /\ signal_call.signal_type \in {"BUY", "SELL", "NONE"}
    /\ signal_call.confidence <= 999

\* C38, amended: the final signal is BUY exactly when the buy score is at
\* least the mode's minimum-confidence threshold and exceeds the sell score,
\* SELL exactly in the mirrored case, no direction otherwise (equal scores
\* included); the confidence is at most 99.9.
C38_SignalAtThreshold ==
  signal_call.state = "done" =>
    /\ signal_call.signal_type = "BUY"
         <=> (/\ signal_call.buy_score >= signal_call.need
              /\ signal_call.buy_score > signal_call.sell_score)
    /\ signal_call.signal_type = "SELL"
         <=> (/\ signal_call.sell_score >= signal_call.need
              /\ signal_call.sell_score > signal_call.buy_score)
    /\ signal_call.signal_type \in {"BUY", "SELL", "NONE"}
    /\ signal_call.confidence <= 999

\* A buy score equal to the threshold, with a smaller sell score against
\* it, made a BUY.
C38_Witness ==
  /\ signal_call.state = "done"
  /\ signal_call.signal_type = "BUY"
  /\ signal_call.buy_score = signal_call.need
  /\ signal_call.sell_score > 0

\* C39: a regime evaluation of the live loop that finds the detector not
\* calibrated, or calibrated more than 4 hours ago, calibrates the
\* thresholds, and an evaluation within 4 hours of a calibration does not.
C39_PeriodicRecalibration ==
  (live_detector.last.state = "done" /\ live_detector.last.evaluated) =>
    IF live_detector.last.due
    THEN /\ live_detector.d.is_calibrated
         /\ live_detector.d.last_calibration_time = live_detector.last.at
    ELSE live_detector.d.last_calibration_time
           = live_detector.last.calibrated_before

====
